---------------------------- MODULE Spec2Model ----------------------------
(***************************************************************************)
(* Trade settlement (FIFO lot matching) and the multi-currency ledger of   *)
(* the trading backend: services/trade_service.rs, services/               *)
(* wallet_service.rs, routes/trade.rs and routes/wallet.rs.                *)
(*                                                                         *)
(* The store holds three tables: trade (lots), trades_fermes_rust (closed  *)
(* trades) and wallet (ledger entries).  Primary keys of trade and wallet  *)
(* are auto-incremented, so a row's id is its position in the sequence.    *)
(* Decimal amounts are modelled by integers (exact arithmetic).  A trade   *)
(* date is the day number of an ISO "%Y-%m-%d" string, whose text order    *)
(* (the ORDER BY of the query) is the calendar order.                      *)
(***************************************************************************)
EXTENDS Integers, Sequences, FiniteSets, TLC

(***************************************************************************)
(* Bounds of the model.                                                    *)
(***************************************************************************)
MaxTrades == 3
MaxWallet == 2

(***************************************************************************)
(* Inputs.                                                                 *)
(***************************************************************************)
Users == {1}
Symbols == {"AAA", "UUU"}
Quantities == {5, 10}
Prices == {50, 60}
Dates == {1, 2}
SellPrices == {55}
SellDates == {2}
Amounts == {1000}
Actions == {"gain", "perte", "ajout", "retrait"}
Currencies == {"CAD", "USD"}

\* Rows of the stock table (symbol_alphavantage, currency); never written by
\* the operations modelled here.
NoCurrency == "NULL"

StockTable == {[symbol |-> "AAA", currency |-> "CAD"],
               [symbol |-> "UUU", currency |-> "USD"],
               [symbol |-> "NNN", currency |-> NoCurrency]}

VARIABLES trades, closed, wallet, procs, last

\* The price rows, the indicator table, the batch run in progress and the
\* outcome of the run that ended last.
VARIABLES historic, indicators, batch, report

\* strategy_results_test and the execute_default_strategies call in progress.
VARIABLES results, strategy_run

\* The calculate_batch call of a strategy that returned last: what it read and
\* the recommendations it returned.
VARIABLES signal

\* The indicator computation of one symbol that returned last: the price rows
\* it read and the indicator rows it handed to the store.
VARIABLES calc

trade_vars == <<trades, closed, wallet, procs, last>>

batch_vars == <<historic, indicators, batch, report>>

strategy_vars == <<results, strategy_run>>

vars == <<trades, closed, wallet, procs, last, historic, indicators, batch, report,
          results, strategy_run, signal, calc>>

Min(a, b) == IF a <= b THEN a ELSE b

(***************************************************************************)
(* WalletService                                                           *)
(***************************************************************************)
EmptyMap == [c \in {} |-> 0]

MapGet(m, k) == IF k \in DOMAIN m THEN m[k] ELSE 0

MapPut(m, k, v) == [c \in (DOMAIN m) \cup {k} |-> IF c = k THEN v ELSE m[c]]

\* Mutant: every ledger entry is added, whatever its action.
ApplyLedgerAction_Unsigned(balance, action, amount) == balance + amount

\* match transaction.action { "gain" | "ajout" => +, "perte" | "retrait" => - }
ApplyLedgerAction(balance, action, amount) ==
    IF action \in {"gain", "ajout"} THEN balance + amount
    ELSE IF action \in {"perte", "retrait"} THEN balance - amount
    ELSE balance

RECURSIVE FoldWalletTotals(_, _)
FoldWalletTotals(transactions, totals) ==
    IF transactions = <<>> THEN totals
    ELSE LET t == Head(transactions)
             balance == MapGet(totals, t.currency)
         IN FoldWalletTotals(Tail(transactions),
                MapPut(totals, t.currency,
                       ApplyLedgerAction(balance, t.action, t.amount)))

calculate_wallet_totals(w, user_id) ==
    FoldWalletTotals(SelectSeq(w, LAMBDA t : t.user_id = user_id), EmptyMap)

\* stock.currency.unwrap_or("CAD"); a symbol without a stock row is CAD too.
StockFound(symbol) == \E s \in StockTable : s.symbol = symbol

StockCurrency(symbol) ==
    IF StockFound(symbol)
    THEN LET currency == (CHOOSE s \in StockTable : s.symbol = symbol).currency
         IN IF currency = NoCurrency THEN "CAD" ELSE currency
    ELSE "CAD"

\* Mutant: the lot's total price is taken for its unit price.
InvestedMontant_PrixTotal(t) ==
    IF t.trade_type = "achat" THEN t.quantite_restante * t.prix_total ELSE 0

\* "achat" => quantite_restante * prix_unitaire, "vente" => nothing
InvestedMontant(t) ==
    IF t.trade_type = "achat" THEN t.quantite_restante * t.prix_unitaire ELSE 0

RECURSIVE FoldInvested(_, _)
FoldInvested(ts, invested) ==
    IF ts = <<>> THEN invested
    ELSE LET t == Head(ts)
             currency == StockCurrency(t.symbol)
             inv == MapGet(invested, currency)
         IN FoldInvested(Tail(ts),
                MapPut(invested, currency, inv + InvestedMontant(t)))

calculate_invested_amounts(tr, user_id) ==
    FoldInvested(SelectSeq(tr, LAMBDA t : t.user_id = user_id), EmptyMap)

\* Mutant: the currencies of the invested side are not added.
AllCurrencies_WalletOnly(wallet_totals, invested_amounts) == DOMAIN wallet_totals

\* all_currencies = wallet_totals.keys() extended by invested_amounts.keys()
AllCurrencies(wallet_totals, invested_amounts) ==
    (DOMAIN wallet_totals) \cup (DOMAIN invested_amounts)

Treasury(total, invested) == total - invested

\* String order of the currency codes (balances.sort_by currency).
CurrencyRank(c) ==
    CASE c = "CAD" -> 1 [] c = "EUR" -> 2 [] c = "USD" -> 3 [] OTHER -> 4

RECURSIVE SortByCurrency(_)
SortByCurrency(S) ==
    IF S = {} THEN <<>>
    ELSE LET b == CHOOSE x \in S :
                    \A y \in S : CurrencyRank(x.currency) <= CurrencyRank(y.currency)
         IN <<b>> \o SortByCurrency(S \ {b})

BalancesOf(wallet_totals, invested_amounts) ==
    SortByCurrency(
        {[currency |-> c,
          total    |-> MapGet(wallet_totals, c),
          invested |-> MapGet(invested_amounts, c),
          treasury |-> Treasury(MapGet(wallet_totals, c),
                                MapGet(invested_amounts, c))]
         : c \in AllCurrencies(wallet_totals, invested_amounts)})

calculate_balances(w, tr, user_id) ==
    BalancesOf(calculate_wallet_totals(w, user_id),
               calculate_invested_amounts(tr, user_id))

\* Mutant: the total of the currency is read for its treasury.
TreasuryIn_Total(balances, currency) ==
    IF \E i \in 1..Len(balances) : balances[i].currency = currency
    THEN balances[CHOOSE i \in 1..Len(balances) :
                      balances[i].currency = currency].total
    ELSE 0

\* balances.iter().find(|b| b.currency == currency), else zero
TreasuryIn(balances, currency) ==
    IF \E i \in 1..Len(balances) : balances[i].currency = currency
    THEN balances[CHOOSE i \in 1..Len(balances) :
                      balances[i].currency = currency].treasury
    ELSE 0

get_treasury_for_currency(w, tr, user_id, currency) ==
    TreasuryIn(calculate_balances(w, tr, user_id), currency)

\* Mutant: a treasury equal to the cost does not admit the purchase.
has_sufficient_funds_Strict(treasury, required_amount) == treasury > required_amount

has_sufficient_funds(treasury, required_amount) == treasury >= required_amount

Shortage(treasury, required_amount) == required_amount - treasury

(***************************************************************************)
(* TradeService                                                            *)
(***************************************************************************)
\* validate_trade_type, validate_positive_decimal, length(min = 1)
Validate(request) ==
    /\ request.symbol # ""
    /\ request.trade_type \in {"achat", "vente"}
    /\ request.quantite > 0
    /\ request.prix_unitaire > 0

PrixTotal(request) == request.quantite * request.prix_unitaire

\* Mutant: a sale starts with its quantity remaining, like a purchase.
InitialQuantiteRestante_All(request) == request.quantite

\* quantite_restante of a new lot: quantite for "achat", zero otherwise
InitialQuantiteRestante(request) ==
    IF request.trade_type = "achat" THEN request.quantite ELSE 0

NewTrade(user_id, request) ==
    [user_id           |-> user_id,
     symbol            |-> request.symbol,
     trade_type        |-> request.trade_type,
     quantite          |-> request.quantite,
     prix_unitaire     |-> request.prix_unitaire,
     prix_total        |-> PrixTotal(request),
     date              |-> request.date,
     quantite_restante |-> InitialQuantiteRestante(request)]

\* The filters of the buy_trades query of process_sale_fifo.
\* Mutant: the buy_trades query does not filter on the user.
EligibleBuyIds_AnyUser(tr, user_id, symbol) ==
    {i \in 1..Len(tr) : /\ tr[i].symbol = symbol
                        /\ tr[i].trade_type = "achat"
                        /\ tr[i].quantite_restante > 0}

EligibleBuyIds(tr, user_id, symbol) ==
    {i \in 1..Len(tr) : /\ tr[i].user_id = user_id
                        /\ tr[i].symbol = symbol
                        /\ tr[i].trade_type = "achat"
                        /\ tr[i].quantite_restante > 0}

\* Mutant: ORDER BY date DESC.
ComesBefore_Desc(tr, order, i, j) ==
    \/ tr[i].date > tr[j].date
    \/ tr[i].date = tr[j].date /\ order[i] <= order[j]

\* ORDER BY date ASC.  The query names no second key: rows of equal date come
\* in an order the store chooses, given here by the ranking `order` of the ids.
ComesBefore(tr, order, i, j) ==
    \/ tr[i].date < tr[j].date
    \/ tr[i].date = tr[j].date /\ order[i] <= order[j]

RECURSIVE OrderByDate(_, _, _)
OrderByDate(tr, order, ids) ==
    IF ids = {} THEN <<>>
    ELSE LET first == CHOOSE i \in ids : \A j \in ids : ComesBefore(tr, order, i, j)
         IN <<[id |-> first, row |-> tr[first]]>>
                \o OrderByDate(tr, order, ids \ {first})

BuyTradesQuery(tr, order, user_id, symbol) ==
    OrderByDate(tr, order, EligibleBuyIds(tr, user_id, symbol))

\* Mutant: the lot is closed whole, whatever is left to sell.
QuantityToClose_All(remaining_quantity, available_quantity) == available_quantity

QuantityToClose(remaining_quantity, available_quantity) ==
    Min(remaining_quantity, available_quantity)

\* Mutant: a matched lot is marked as sold out.
NewQuantiteRestante_Zero(available_quantity, quantity_to_close) == 0

NewQuantiteRestante(available_quantity, quantity_to_close) ==
    available_quantity - quantity_to_close

Gain(sale_price, buy_price, quantity) == (sale_price - buy_price) * quantity

\* Decimal::round of the quotient n / d, d > 0: midpoints go to the even integer.
RoundHalfEven(n, d) ==
    LET q == n \div d
        r == n - q * d
    IN IF 2 * r < d THEN q
       ELSE IF 2 * r > d THEN q + 1
       ELSE IF q % 2 = 0 THEN q ELSE q + 1

\* Mutant: the difference is taken the other way round.
Pourcentage_Reversed(sale_price, buy_price) ==
    RoundHalfEven((buy_price - sale_price) * 100, buy_price)

Pourcentage(sale_price, buy_price) ==
    RoundHalfEven((sale_price - buy_price) * 100, buy_price)

TempsJours(date_achat, date_vente) == date_vente - date_achat

\* The row create_closed_trade inserts.  `quantity` is the argument of the call;
\* the table keeps it only through gain_dollars.
ClosedTrade(user_id, buy_id, buy_trade, sale_id, sale_trade, quantity) ==
    [user_id          |-> user_id,
     symbol           |-> buy_trade.symbol,
     date_achat       |-> buy_trade.date,
     prix_achat       |-> buy_trade.prix_unitaire,
     date_vente       |-> sale_trade.date,
     prix_vente       |-> sale_trade.prix_unitaire,
     pourcentage_gain |-> Pourcentage(sale_trade.prix_unitaire, buy_trade.prix_unitaire),
     gain_dollars     |-> Gain(sale_trade.prix_unitaire, buy_trade.prix_unitaire, quantity),
     temps_jours      |-> TempsJours(buy_trade.date, sale_trade.date),
     trade_achat_id   |-> buy_id,
     trade_vente_id   |-> sale_id,
     quantity         |-> quantity]

RECURSIVE SumOver(_, _)
SumOver(S, f) ==
    IF S = {} THEN 0
    ELSE LET x == CHOOSE y \in S : TRUE IN f[x] + SumOver(S \ {x}, f)

\* Mutant: the lots' original quantities are summed.
get_available_quantity_Original(tr, user_id, symbol) ==
    SumOver(EligibleBuyIds(tr, user_id, symbol),
            [i \in 1..Len(tr) |-> tr[i].quantite])

\* filter "achat", quantite_restante > 0; sum of quantite_restante
get_available_quantity(tr, user_id, symbol) ==
    SumOver(EligibleBuyIds(tr, user_id, symbol),
            [i \in 1..Len(tr) |-> tr[i].quantite_restante])

(***************************************************************************)
(* A create_trade call in progress.  Every await on the store is one step; *)
(* the lookups in the stock table, which nothing writes, are folded into   *)
(* the step they belong to.                                                *)
(***************************************************************************)
NoRequest == [symbol |-> "", trade_type |-> "", quantite |-> 0,
              prix_unitaire |-> 0, date |-> 0]

IdentityOrder == [i \in 1..MaxTrades |-> i]

Idle == [pc |-> "idle", user_id |-> 0, request |-> NoRequest,
         order |-> IdentityOrder, currency |-> "", wallet_totals |-> EmptyMap,
         treasury |-> 0, shortage |-> 0, trade_id |-> 0, buy_trades |-> <<>>,
         i |-> 0, remaining_quantity |-> 0, quantity_to_close |-> 0,
         outcome |-> "none"]

Finish(p, outcome) == [p EXCEPT !.pc = "done", !.outcome = outcome]

\* routes::trade::create_trade up to the first await of the service.
Start(user_id, request, order) ==
    LET p == [Idle EXCEPT !.user_id = user_id, !.request = request, !.order = order]
    IN IF ~Validate(request) THEN Finish(p, "bad_request")
       ELSE IF request.trade_type = "achat"
            THEN IF ~StockFound(request.symbol) THEN Finish(p, "stock_not_found")
                 ELSE [p EXCEPT !.pc = "wallet_read",
                                !.currency = StockCurrency(request.symbol)]
            ELSE [p EXCEPT !.pc = "insert"]

\* The loop head of process_sale_fifo, and what follows the loop.
LoopOrCheck(p) ==
    IF p.i <= Len(p.buy_trades) /\ p.remaining_quantity > 0
    THEN [p EXCEPT !.pc = "close"]
    ELSE IF p.remaining_quantity > 0 THEN Finish(p, "short_selling")
         ELSE Finish(p, "ok")

Step(st, p) ==
    CASE p.pc = "wallet_read" ->
           [store |-> st,
            proc  |-> [p EXCEPT !.pc = "trades_read",
                          !.wallet_totals = calculate_wallet_totals(st.wallet, p.user_id)]]
      [] p.pc = "trades_read" ->
           LET treasury == TreasuryIn(
                   BalancesOf(p.wallet_totals,
                              calculate_invested_amounts(st.trades, p.user_id)),
                   p.currency)
           IN [store |-> st,
               proc  |-> [p EXCEPT !.treasury = treasury,
                             !.pc = IF has_sufficient_funds(treasury, PrixTotal(p.request))
                                    THEN "insert" ELSE "msg_wallet"]]
      [] p.pc = "msg_wallet" ->
           [store |-> st,
            proc  |-> [p EXCEPT !.pc = "msg_trades",
                          !.wallet_totals = calculate_wallet_totals(st.wallet, p.user_id)]]
      [] p.pc = "msg_trades" ->
           LET treasury == TreasuryIn(
                   BalancesOf(p.wallet_totals,
                              calculate_invested_amounts(st.trades, p.user_id)),
                   p.currency)
           IN [store |-> st,
               proc  |-> Finish([p EXCEPT !.treasury = treasury,
                                    !.shortage = Shortage(treasury, PrixTotal(p.request))],
                                "insufficient_funds")]
      [] p.pc = "insert" ->
           LET tr == Append(st.trades, NewTrade(p.user_id, p.request))
               q  == [p EXCEPT !.trade_id = Len(tr)]
           IN [store |-> [st EXCEPT !.trades = tr],
               proc  |-> IF p.request.trade_type = "vente"
                         THEN [q EXCEPT !.pc = "query"]
                         ELSE Finish(q, "ok")]
      [] p.pc = "query" ->
           [store |-> st,
            proc  |-> LoopOrCheck([p EXCEPT
                          !.buy_trades = BuyTradesQuery(st.trades, p.order, p.user_id,
                                                        p.request.symbol),
                          !.i = 1,
                          !.remaining_quantity = p.request.quantite])]
      [] p.pc = "close" ->
           LET buy == p.buy_trades[p.i]
               quantity_to_close ==
                   QuantityToClose(p.remaining_quantity, buy.row.quantite_restante)
           IN [store |-> [st EXCEPT !.closed = Append(@,
                              ClosedTrade(p.user_id, buy.id, buy.row, p.trade_id,
                                          st.trades[p.trade_id], quantity_to_close))],
               proc  |-> [p EXCEPT !.pc = "update",
                                   !.quantity_to_close = quantity_to_close]]
      [] p.pc = "update" ->
           LET buy == p.buy_trades[p.i]
           IN [store |-> [st EXCEPT !.trades[buy.id].quantite_restante =
                              NewQuantiteRestante(buy.row.quantite_restante,
                                                  p.quantity_to_close)],
               proc  |-> LoopOrCheck([p EXCEPT
                             !.remaining_quantity = @ - p.quantity_to_close,
                             !.i = @ + 1])]

RECURSIVE Run(_, _)
Run(st, p) ==
    IF p.pc = "done" THEN [store |-> st, proc |-> p]
    ELSE LET r == Step(st, p) IN Run(r.store, r.proc)

(***************************************************************************)
(* routes::wallet::add_transaction                                         *)
(***************************************************************************)
ValidTransaction(body) ==
    /\ body.action \in {"gain", "perte", "ajout", "retrait"}
    /\ body.currency \in {"CAD", "USD", "EUR"}
    /\ body.amount > 0

NewTransaction(user_id, body) ==
    [user_id  |-> user_id,
     date     |-> body.date,
     action   |-> body.action,
     symbol   |-> body.symbol,
     amount   |-> body.amount,
     currency |-> body.currency]

NoBody == [date |-> 0, action |-> "", symbol |-> "", amount |-> 0, currency |-> ""]

(***************************************************************************)
(* routes/wallet.rs, get_balance: the balance request computes the ledger  *)
(* totals and the invested amounts itself, from the same two tables.       *)
(***************************************************************************)
\* "achat" => += quantite * prix_unitaire, "vente" => -= quantite * prix_unitaire
RouteMontant(t) ==
    IF t.trade_type = "achat" THEN t.quantite * t.prix_unitaire
    ELSE IF t.trade_type = "vente" THEN 0 - t.quantite * t.prix_unitaire
    ELSE 0

\* A trade whose symbol has no stock row is skipped (continue).
RECURSIVE FoldRouteInvested(_, _)
FoldRouteInvested(ts, invested) ==
    IF ts = <<>> THEN invested
    ELSE LET t == Head(ts)
         IN IF ~StockFound(t.symbol) THEN FoldRouteInvested(Tail(ts), invested)
            ELSE LET currency == StockCurrency(t.symbol)
                     inv == MapGet(invested, currency)
                 IN FoldRouteInvested(Tail(ts),
                        MapPut(invested, currency, inv + RouteMontant(t)))

get_balance(w, tr, user_id) ==
    BalancesOf(calculate_wallet_totals(w, user_id),
               FoldRouteInvested(SelectSeq(tr, LAMBDA t : t.user_id = user_id),
                                 EmptyMap))

(***************************************************************************)
(* GET /trades/open, get_open_positions: the route folds the user's trade  *)
(* rows itself, adding the quantity of each "achat" row to the symbol's    *)
(* entry and subtracting the quantity of each "vente" row, and lists the   *)
(* symbols whose entry is positive.  Only the quantity of an entry is      *)
(* modelled; the average price takes no part in the filter.                *)
(***************************************************************************)
RECURSIVE FoldPositions(_, _)
FoldPositions(ts, positions) ==
    IF ts = <<>> THEN positions
    ELSE LET t == Head(ts)
             entry == MapGet(positions, t.symbol)
         IN FoldPositions(Tail(ts),
                MapPut(positions, t.symbol,
                       IF t.trade_type = "achat" THEN entry + t.quantite
                       ELSE IF t.trade_type = "vente" THEN entry - t.quantite
                       ELSE entry))

get_open_positions(tr, user_id) ==
    LET positions ==
            FoldPositions(SelectSeq(tr, LAMBDA t : t.user_id = user_id), EmptyMap)
    IN {[symbol |-> symbol, quantite_totale |-> positions[symbol]] :
            symbol \in {s \in DOMAIN positions : positions[s] > 0}}

(***************************************************************************)
(* The indicator calculators (services/indicators).  A series is the rows  *)
(* of one symbol as group_by_symbol collects them from df_full, in date    *)
(* order: records with date, open, high, low and close.  Prices are        *)
(* integers; an f64 result is the exact fraction, kept in lowest terms, so *)
(* that two results are equal only when the two computations agree.        *)
(***************************************************************************)
RECURSIVE GCD(_, _)
GCD(a, b) == IF b = 0 THEN a ELSE GCD(b, a % b)

Abs(n) == IF n < 0 THEN 0 - n ELSE n

\* The fraction n / d, d # 0, in lowest terms with a positive denominator.
Ratio(n, d) ==
    LET g == GCD(Abs(n), Abs(d))
        s == IF d < 0 THEN 0 - 1 ELSE 1
    IN [num |-> s * (n \div g), den |-> s * (d \div g)]

Whole(n) == [num |-> n, den |-> 1]

RatAdd(x, y) ==
    LET g == GCD(x.den, y.den)
    IN Ratio(x.num * (y.den \div g) + y.num * (x.den \div g), (x.den \div g) * y.den)

RatSub(x, y) == RatAdd(x, [num |-> 0 - y.num, den |-> y.den])

RatMul(x, y) ==
    LET g1 == GCD(Abs(x.num), y.den)
        g2 == GCD(Abs(y.num), x.den)
    IN Ratio((x.num \div g1) * (y.num \div g2), (x.den \div g2) * (y.den \div g1))

RatDiv(x, y) == RatMul(x, Ratio(y.den, y.num))

\* An Option<f64>.
NoneF64 == [some |-> FALSE, value |-> Whole(0)]

SomeF64(v) == [some |-> TRUE, value |-> v]

ClosesOf(data) == [i \in 1..Len(data) |-> data[i].close]

\* The sum of a sequence, taken by halves to keep the evaluation shallow.
RECURSIVE SumSeq(_)
SumSeq(s) ==
    IF s = <<>> THEN 0
    ELSE IF Len(s) = 1 THEN s[1]
    ELSE SumSeq(SubSeq(s, 1, Len(s) \div 2))
             + SumSeq(SubSeq(s, Len(s) \div 2 + 1, Len(s)))

RECURSIVE RatSum(_)
RatSum(s) == IF s = <<>> THEN Whole(0) ELSE RatAdd(Head(s), RatSum(Tail(s)))

(***************************************************************************)
(* EMACalculator::compute_ema                                              *)
(***************************************************************************)
\* multiplier = 2.0 / (period + 1.0)
Multiplier(period) == Ratio(2, period + 1)

\* Mutant: the seed leaves the first close out of the sum.
InitialSma_Shifted(closes, period) == Ratio(SumSeq(SubSeq(closes, 2, period)), period)

\* closes[0..period].sum() / period
InitialSma(closes, period) == Ratio(SumSeq(SubSeq(closes, 1, period)), period)

\* (close * multiplier) + (previous_ema * (1.0 - multiplier))
NextEma(close, previous_ema, period) ==
    RatAdd(RatMul(Whole(close), Multiplier(period)),
           RatMul(previous_ema, RatSub(Whole(1), Multiplier(period))))

\* for i in period..len: the values of the rows first..last that follow the
\* seed, each from the one before it; the range is walked by halves.
RECURSIVE EmaFrom(_, _, _, _, _)
EmaFrom(closes, period, first, until, previous_ema) ==
    IF first > until THEN <<>>
    ELSE IF first = until
         THEN <<SomeF64(NextEma(closes[first], previous_ema, period))>>
    ELSE LET middle == (first + until) \div 2
             head   == EmaFrom(closes, period, first, middle, previous_ema)
         IN head \o EmaFrom(closes, period, middle + 1, until, head[Len(head)].value)

compute_ema(closes, period) ==
    IF Len(closes) < period THEN [i \in 1..Len(closes) |-> NoneF64]
    ELSE LET initial_sma == InitialSma(closes, period)
         IN [i \in 1..(period - 1) |-> NoneF64] \o <<SomeF64(initial_sma)>>
                \o EmaFrom(closes, period, period + 1, Len(closes), initial_sma)

(***************************************************************************)
(* RSICalculator                                                           *)
(***************************************************************************)
\* gains and losses of closes[i] - closes[i - 1], i in 1..len
Gains(closes) ==
    [i \in 1..(Len(closes) - 1) |->
        IF closes[i + 1] - closes[i] > 0 THEN closes[i + 1] - closes[i] ELSE 0]

Losses(closes) ==
    [i \in 1..(Len(closes) - 1) |->
        IF closes[i + 1] - closes[i] > 0 THEN 0 ELSE closes[i] - closes[i + 1]]

\* &v[v.len().saturating_sub(period)..]
Recent(v, period) ==
    SubSeq(v, (IF Len(v) > period THEN Len(v) - period ELSE 0) + 1, Len(v))

compute_rsi(closes, period) ==
    IF Len(closes) <= period THEN NoneF64
    ELSE LET avg_gain == Ratio(SumSeq(Recent(Gains(closes), period)), period)
             avg_loss == Ratio(SumSeq(Recent(Losses(closes), period)), period)
         IN IF avg_loss.num = 0 THEN SomeF64(Whole(100))
            ELSE LET rs == RatDiv(avg_gain, avg_loss)
                 IN SomeF64(RatSub(Whole(100),
                                   RatDiv(Whole(100), RatAdd(Whole(1), rs))))

\* Mutant: the bar that follows exactly `period` bars already gets a value.
RSIWindowStart_Early(n, period) == IF n > period THEN n - period + 1 ELSE 0

\* if i > period { window = closes[i - period..=i] }: the first bar of the
\* window of the n-th bar (n = i + 1), 0 when the bar gets no value
RSIWindowStart(n, period) == IF n - 1 > period THEN n - period ELSE 0

RSIValues(closes, period) ==
    [n \in 1..Len(closes) |->
        IF RSIWindowStart(n, period) = 0 THEN NoneF64
        ELSE compute_rsi(SubSeq(closes, RSIWindowStart(n, period), n), period)]

(***************************************************************************)
(* StochasticCalculator                                                    *)
(***************************************************************************)
\* fold(f64::INFINITY, f64::min) over the lows of a window that is not empty
RECURSIVE LowestLow(_)
LowestLow(window) ==
    IF Len(window) = 1 THEN window[1].low
    ELSE Min(LowestLow(SubSeq(window, 1, Len(window) \div 2)),
             LowestLow(SubSeq(window, Len(window) \div 2 + 1, Len(window))))

Max(a, b) == IF a >= b THEN a ELSE b

\* fold(f64::NEG_INFINITY, f64::max) over the highs
RECURSIVE HighestHigh(_)
HighestHigh(window) ==
    IF Len(window) = 1 THEN window[1].high
    ELSE Max(HighestHigh(SubSeq(window, 1, Len(window) \div 2)),
             HighestHigh(SubSeq(window, Len(window) \div 2 + 1, Len(window))))

\* Mutant: the close is measured from the top of the range.
compute_fast_k_FromHigh(window) ==
    IF window = <<>> THEN NoneF64
    ELSE LET denominator == HighestHigh(window) - LowestLow(window)
         IN IF denominator = 0 THEN SomeF64(Whole(0))
            ELSE SomeF64(Ratio(100 * (HighestHigh(window) - window[Len(window)].close),
                               denominator))

compute_fast_k(window) ==
    IF window = <<>> THEN NoneF64
    ELSE LET denominator == HighestHigh(window) - LowestLow(window)
         IN IF denominator = 0 THEN SomeF64(Whole(0))
            ELSE SomeF64(Ratio(100 * (window[Len(window)].close - LowestLow(window)),
                               denominator))

\* min_periods = k_period + k_slowing - 1
MinPeriods(k_period, k_slowing) == k_period + k_slowing - 1

\* The value of the n-th bar (i = n - 1 in the source).
StochasticAt(data, n, k_period, k_slowing) ==
    IF n - 1 >= MinPeriods(k_period, k_slowing)
    THEN LET fast_k_values ==
                 [j \in 1..k_slowing |->
                     compute_fast_k(SubSeq(data, (n - k_slowing + j) - k_period + 1,
                                           n - k_slowing + j))]
         IN IF \A j \in 1..k_slowing : fast_k_values[j].some
            THEN SomeF64(RatDiv(RatSum([j \in 1..k_slowing |-> fast_k_values[j].value]),
                                Whole(k_slowing)))
            ELSE NoneF64
    ELSE NoneF64

StochasticValues(data, k_period, k_slowing) ==
    [n \in 1..Len(data) |-> StochasticAt(data, n, k_period, k_slowing)]

(***************************************************************************)
(* PointPivotCalculator.  A level is kept in hundredths, as                *)
(* round_to_2_decimals leaves it.                                          *)
(***************************************************************************)
\* (value * 100.0).round() / 100.0, in hundredths: halves go away from zero
round_to_2_decimals(value) ==
    LET q     == value.num \div value.den
        rem   == value.num - q * value.den
        floor == q * 100 + (rem * 100) \div value.den
        rest  == (rem * 100) % value.den
    IN IF 2 * rest > value.den THEN floor + 1
       ELSE IF 2 * rest = value.den /\ value.num >= 0 THEN floor + 1
       ELSE floor

calculate_camarilla_pivots(h, l, c, o) ==
    LET pivot == Ratio(h + l + c + o, 4)
        two   == Whole(2)
    IN [pivot |-> round_to_2_decimals(pivot),
        r1 |-> round_to_2_decimals(RatSub(RatMul(two, pivot), Whole(l))),
        r2 |-> round_to_2_decimals(RatAdd(pivot, Whole(h - l))),
        r3 |-> round_to_2_decimals(RatAdd(Whole(h), RatMul(two, RatSub(pivot, Whole(l))))),
        s1 |-> round_to_2_decimals(RatSub(RatMul(two, pivot), Whole(h))),
        s2 |-> round_to_2_decimals(RatSub(pivot, Whole(h - l))),
        s3 |-> round_to_2_decimals(RatSub(Whole(l), RatMul(two, RatSub(Whole(h), pivot))))]

ZeroPivot == [pivot |-> 0, r1 |-> 0, r2 |-> 0, r3 |-> 0, s1 |-> 0, s2 |-> 0, s3 |-> 0]

NoPivot == [some |-> FALSE, value |-> ZeroPivot]

SomePivot(p) == [some |-> TRUE, value |-> p]

\* Mutant: the window reaches one bar further back.
PivotStart_OneMore(n, period_days) ==
    IF n - 1 >= period_days THEN n - period_days ELSE 1

\* start_idx, for the n-th bar (current_idx = n - 1)
PivotStart(n, period_days) ==
    IF n - 1 >= period_days THEN n - period_days + 1 ELSE 1

calculate_period_pivots(data, n, period_days, min_data_points) ==
    LET window == SubSeq(data, PivotStart(n, period_days), n)
    IN IF Len(window) < min_data_points THEN NoPivot
       ELSE SomePivot(calculate_camarilla_pivots(HighestHigh(window), LowestLow(window),
                                                 window[Len(window)].close,
                                                 window[1].open))

NoPivots == [some |-> FALSE,
             value |-> [week |-> NoPivot, month |-> NoPivot, year |-> NoPivot]]

\* The point_pivot column of the n-th bar: the JSON of the windows present.
PointPivotAt(data, n) ==
    LET week_pivots  == calculate_period_pivots(data, n, 7, 2)
        month_pivots == calculate_period_pivots(data, n, 30, 5)
        year_pivots  == calculate_period_pivots(data, n, 365, 30)
    IN IF week_pivots.some \/ month_pivots.some \/ year_pivots.some
       THEN [some |-> TRUE,
             value |-> [week |-> week_pivots, month |-> month_pivots,
                        year |-> year_pivots]]
       ELSE NoPivots

PointPivotValues(data) == [n \in 1..Len(data) |-> PointPivotAt(data, n)]

(***************************************************************************)
(* IndicatorService.  historicdata and the indicator table are sets of     *)
(* rows keyed by (symbol, date); a date is the day number of its ISO       *)
(* string.  The four calculators read, for a row (symbol, date), the rows  *)
(* of that symbol in df_full up to that date: an indicator row's value is  *)
(* modelled by the set of the dates read, so that two computations agree   *)
(* only when they read the same price rows.  Prices parse as numbers.      *)
(***************************************************************************)
\* Duration::days(365)
CutoffDays == 365

\* calculate_period_pivots(data, i, 7, 2): the week pivot needs two rows, the
\* least any indicator needs.
MinDataPoints == 2

\* Every indicator of the row is null.
NoValue == {}

StockSymbols == {s.symbol : s \in StockTable}

get_existing_symbols(ind) == {r.symbol : r \in ind}

ExistingSymbols(symbols, ind) == {s \in symbols : s \in get_existing_symbols(ind)}

NewSymbols(symbols, ind) == {s \in symbols : s \notin get_existing_symbols(ind)}

\* Mutant: the watermark is the earliest stored date.
MaxDate_Earliest(ind) == CHOOSE d \in {r.date : r \in ind} : \A r \in ind : r.date >= d

\* SELECT MAX(date) over the whole indicator table.
MaxDate(ind) == CHOOSE d \in {r.date : r \in ind} : \A r \in ind : r.date <= d

Cutoff(last_date) == last_date - CutoffDays

fetch_historicdata_after(hist, cutoff, symbols) ==
    {h \in hist : h.date > cutoff /\ h.symbol \in symbols}

fetch_all_for_symbols(hist, symbols) == {h \in hist : h.symbol \in symbols}

\* Mutant: the watermark's own date is taken again.
NewDates_Inclusive(df_full, last_date) == {h \in df_full : h.date >= last_date}

\* filter(col("date").gt(lit(last_date)))
NewDates(df_full, last_date) == {h \in df_full : h.date > last_date}

\* The rows of the symbol a calculator has grouped from df_full, up to `date`.
WindowRows(df_full, symbol, date) ==
    {h.date : h \in {x \in df_full : x.symbol = symbol /\ x.date <= date}}

Calculate(df_full, symbol, date) ==
    LET window == WindowRows(df_full, symbol, date)
    IN IF Cardinality(window) < MinDataPoints THEN NoValue ELSE window

merge_indicators(df_new, df_full) ==
    {[symbol |-> h.symbol, date |-> h.date,
      value  |-> Calculate(df_full, h.symbol, h.date)] : h \in df_new}

\* symbol_data: only rows with at least one indicator that is not null.
SymbolData(df) == {r \in df : r.value # NoValue}

RECURSIVE RowsByDate(_)
RowsByDate(rows) ==
    IF rows = {} THEN <<>>
    ELSE LET first == CHOOSE r \in rows : \A x \in rows : r.date <= x.date
         IN <<first>> \o RowsByDate(rows \ {first})

RowExists(table, row) ==
    \E r \in table : r.symbol = row.symbol /\ r.date = row.date

\* existing => UPDATE of the indicator columns, none => INSERT
UpsertRow(table, row) ==
    {r \in table : ~(r.symbol = row.symbol /\ r.date = row.date)} \cup {row}

InsertRow(table, row) == table \cup {row}

\* Mutant: the rows written before the error stay in the table.
Rollback_KeepWrites(committed, working) == working

\* A transaction dropped without commit is rolled back.
Rollback(committed, working) == committed

IdleBatch ==
    [pc |-> "idle", symbols |-> {}, existing_symbols |-> {}, new_symbols |-> {},
     last_date |-> 0, flux |-> "", symbol_data |-> {}, symbol |-> "", rows |-> <<>>,
     working |-> {}, written |-> {}, total_inserted |-> 0, committed |-> {},
     start |-> {}]

NoReport ==
    [outcome |-> "none", total_inserted |-> 0, symbols |-> {}, committed |-> {},
     failed |-> "", written |-> {}, start |-> {}, historic |-> {}]

\* What follows process_existing_symbols in calculate_all_indicators.
AfterFluxA(b) == IF b.new_symbols # {} THEN "process_new" ELSE "return"

AfterFlux(b) == IF b.flux = "A" THEN AfterFluxA(b) ELSE "return"

(***************************************************************************)
(* StrategyService.  strategy_results_test is a set of rows; the entity    *)
(* declares strategy_id alone as its primary key, and SeaORM addresses the *)
(* row of an update by the primary key of the entity.                      *)
(***************************************************************************)
\* The default strategies, in the order execute_default_strategies runs them.
StrategyIds == 1..2

Recommendations ==
    {[recommendation |-> "BUY", metadata |-> "low"],
     [recommendation |-> "SELL", metadata |-> "high"]}

\* Local::now(), as a day number.
Todays == {1, 2}

\* active_model.update(db): UPDATE .. SET recommendation, metadata
\* WHERE strategy_id = <the model's primary key>
UpdateByPrimaryKey(table, strategy_id, rec) ==
    {IF r.strategy_id = strategy_id
     THEN [r EXCEPT !.recommendation = rec.recommendation,
                    !.metadata = rec.metadata]
     ELSE r : r \in table}

save_result(table, strategy_id, symbol, rec, today) ==
    IF \E r \in table : r.strategy_id = strategy_id /\ r.symbol = symbol
    THEN UpdateByPrimaryKey(table, strategy_id, rec)
    ELSE table \cup {[strategy_id |-> strategy_id, symbol |-> symbol, date |-> today,
                      recommendation |-> rec.recommendation,
                      metadata |-> rec.metadata]}

IdleRun == [pc |-> "idle", pending |-> <<>>, today |-> 0]

\* The symbols a calculate_batch answers for, in the order of its result.
RECURSIVE SymbolSeq(_)
SymbolSeq(symbols) ==
    IF symbols = {} THEN <<>>
    ELSE LET s == CHOOSE x \in symbols : TRUE
         IN <<s>> \o SymbolSeq(symbols \ {s})

\* The save_result calls of a run: strategy after strategy, one per
\* recommendation of its calculate_batch.
RECURSIVE PendingFrom(_, _)
PendingFrom(strategy_id, covered) ==
    IF strategy_id \notin StrategyIds THEN <<>>
    ELSE LET syms == SymbolSeq({s \in Symbols : <<strategy_id, s>> \in covered})
         IN [i \in 1..Len(syms) |-> [strategy_id |-> strategy_id, symbol |-> syms[i]]]
                \o PendingFrom(strategy_id + 1, covered)

(***************************************************************************)
(* The default strategies (services/strategies/defaults).  A text column   *)
(* of the indicator or price table is NULL, a number as the indicator      *)
(* service writes it, or a text that parses to no number; a parsed value   *)
(* is an Option.  Prices and oscillator values are integers.               *)
(***************************************************************************)
BUY_THRESHOLD == 20
SELL_THRESHOLD == 80

None == [some |-> FALSE, value |-> 0]

Some(v) == [some |-> TRUE, value |-> v]

NullColumn == [kind |-> "null", value |-> 0]

NumberColumn(n) == [kind |-> "number", value |-> n]

TextColumn == [kind |-> "text", value |-> 0]

\* column.as_ref().and_then(|s| s.parse::<f64>().ok())
ParseF64(column) == IF column.kind = "number" THEN Some(column.value) ELSE None

\* Mutant: the thresholds themselves are left to HOLD.
MinMaxRecommendation_Strict(min_price, max_price, current_price) ==
    LET difference == (current_price - min_price) * 100
        range == max_price - min_price
    IN IF difference < BUY_THRESHOLD * range THEN "BUY"
       ELSE IF difference > SELL_THRESHOLD * range THEN "SELL"
       ELSE "HOLD"

\* percentage = (current_price - min_price) / (max_price - min_price) * 100,
\* compared with the thresholds exactly; max_price > min_price.
MinMaxRecommendation(min_price, max_price, current_price) ==
    LET difference == (current_price - min_price) * 100
        range == max_price - min_price
    IN IF difference <= BUY_THRESHOLD * range THEN "BUY"
       ELSE IF difference >= SELL_THRESHOLD * range THEN "SELL"
       ELSE "HOLD"

\* The rows of get_min_max_prices_last_year that are not skipped.
MinMaxKept(row) ==
    /\ row.current_price.some
    /\ row.current_price.value > 0
    /\ row.max_price # row.min_price

MinMaxLastYear_calculate_batch(rows) ==
    LET kept == SelectSeq(rows, MinMaxKept)
    IN [i \in 1..Len(kept) |->
           [symbol |-> kept[i].symbol,
            recommendation |-> MinMaxRecommendation(kept[i].min_price,
                                                    kept[i].max_price,
                                                    kept[i].current_price.value)]]

\* if stoch_value <= 20.0 { "BUY" } else if stoch_value >= 80.0 { "SELL" } else { "HOLD" }
ThresholdSignal(value) ==
    IF value <= 20 THEN "BUY" ELSE IF value >= 80 THEN "SELL" ELSE "HOLD"

\* latest[symbol]: the indicator row of the symbol with the greatest date.
StochasticStrategy_calculate_batch(symbols, latest) ==
    LET Answered(symbol) ==
            /\ latest[symbol].some
            /\ ParseF64(latest[symbol].value.stochastic14_7_7).some
        kept == SelectSeq(symbols, Answered)
    IN [i \in 1..Len(kept) |->
           [symbol |-> kept[i],
            recommendation |->
                ThresholdSignal(ParseF64(latest[kept[i]].value.stochastic14_7_7).value)]]

\* The RSI strategy: the thresholds of MinMaxLastYear on the latest rsi25.
RSIStrategy_calculate_batch(symbols, latest) ==
    LET Answered(symbol) ==
            /\ latest[symbol].some
            /\ ParseF64(latest[symbol].value.rsi25).some
        kept == SelectSeq(symbols, Answered)
    IN [i \in 1..Len(kept) |->
           [symbol |-> kept[i],
            recommendation |->
                LET value == ParseF64(latest[kept[i]].value.rsi25).value
                IN IF value <= BUY_THRESHOLD THEN "BUY"
                   ELSE IF value >= SELL_THRESHOLD THEN "SELL"
                   ELSE "HOLD"]]

\* Mutant: a close equal to the average is a BUY.
EMASignal_AtOrAbove(close, ema) ==
    IF ~ema.some THEN "N/A" ELSE IF close >= ema.value THEN "BUY" ELSE "SELL"

\* if let Some(v) = ema { if close > v { "BUY" } else { "SELL" } } else { "N/A" }
EMASignal(close, ema) ==
    IF ~ema.some THEN "N/A" ELSE IF close > ema.value THEN "BUY" ELSE "SELL"

\* closes[symbol]: the close of the historicdata row of the symbol at the date
\* of its latest indicator row, if there is such a row.
EMAStrategy_calculate_batch(symbols, latest, closes) ==
    LET Answered(symbol) ==
            /\ latest[symbol].some
            /\ closes[symbol].some
            /\ ParseF64(closes[symbol].value).some
        kept == SelectSeq(symbols, Answered)
    IN [i \in 1..Len(kept) |->
           LET indicator == latest[kept[i]].value
               close == ParseF64(closes[kept[i]].value).value
           IN [symbol |-> kept[i],
               recommendation |->
                   <<EMASignal(close, ParseF64(indicator.ema20)),
                     EMASignal(close, ParseF64(indicator.ema50)),
                     EMASignal(close, ParseF64(indicator.ema200))>>]]

NoIndicators ==
    [stochastic14_7_7 |-> NullColumn, rsi25 |-> NullColumn, ema20 |-> NullColumn,
     ema50 |-> NullColumn, ema200 |-> NullColumn, point_pivot |-> NoPivots]

\* .one(db) found no row.
NoRow == [some |-> FALSE, value |-> NoIndicators]

NoClose == [some |-> FALSE, value |-> NullColumn]

\* Mutant: a level at exactly 1% of itself from the price is not close.
is_close_to_level_Strict(price, level) ==
    Abs(100 * price - level) * 100 < level

\* threshold = level * 0.01; (price - level).abs() <= threshold.  The price is
\* a whole number and the level is in hundredths, as the JSON holds it.
is_close_to_level(price, level) ==
    Abs(100 * price - level) * 100 <= level

calculate_period_score(close, period_pivots, period_weight) ==
    (IF is_close_to_level(close, period_pivots.s3) THEN period_weight * 3 * 1 ELSE 0)
    + (IF is_close_to_level(close, period_pivots.s2) THEN period_weight * 2 * 1 ELSE 0)
    + (IF is_close_to_level(close, period_pivots.s1) THEN period_weight * 1 * 1 ELSE 0)
    + (IF is_close_to_level(close, period_pivots.r1) THEN period_weight * 1 * (-1) ELSE 0)
    + (IF is_close_to_level(close, period_pivots.r2) THEN period_weight * 2 * (-1) ELSE 0)
    + (IF is_close_to_level(close, period_pivots.r3) THEN period_weight * 3 * (-1) ELSE 0)

\* total_score of one symbol: the windows that the JSON holds.
PointPivotScore(close, point_pivot) ==
    (IF point_pivot.year.some
     THEN calculate_period_score(close, point_pivot.year.value, 3) ELSE 0)
    + (IF point_pivot.month.some
       THEN calculate_period_score(close, point_pivot.month.value, 2) ELSE 0)
    + (IF point_pivot.week.some
       THEN calculate_period_score(close, point_pivot.week.value, 1) ELSE 0)

PointPivotStrategy_calculate_batch(symbols, latest, closes) ==
    LET Answered(symbol) ==
            /\ latest[symbol].some
            /\ closes[symbol].some
            /\ ParseF64(closes[symbol].value).some
            /\ latest[symbol].value.point_pivot.some
        kept == SelectSeq(symbols, Answered)
    IN [i \in 1..Len(kept) |->
           LET total_score ==
                   PointPivotScore(ParseF64(closes[kept[i]].value).value,
                                   latest[kept[i]].value.point_pivot.value)
           IN [symbol |-> kept[i],
               recommendation |-> IF total_score > 0 THEN "BUY"
                                  ELSE IF total_score < 0 THEN "SELL"
                                  ELSE "HOLD",
               total_score |-> total_score]]

NoSignal ==
    [strategy |-> "", rows |-> <<>>, latest |-> [symbol \in Symbols |-> NoRow],
     closes |-> [symbol \in Symbols |-> NoClose], recs |-> <<>>]

(***************************************************************************)
(* The indicator rows of one symbol.  merge_indicators joins the four      *)
(* calculators' results on the dates of df_new; the store keeps a float    *)
(* column as the text of format!("{:.2}"), modelled by its hundredths.     *)
(***************************************************************************)
RSI_PERIOD == 25
K_PERIOD == 14
K_SLOWING == 7
EMA_PERIODS == <<20, 50, 200>>

\* format!("{:.2}", f), in hundredths: an exact half goes to the even digit
FormatF64(value) ==
    LET q     == value.num \div value.den
        rem   == value.num - q * value.den
        floor == q * 100 + (rem * 100) \div value.den
        rest  == (rem * 100) % value.den
    IN IF 2 * rest > value.den THEN floor + 1
       ELSE IF 2 * rest = value.den /\ floor % 2 # 0 THEN floor + 1
       ELSE floor

\* AnyValue::Float64(f) => Some(format!("{:.2}", f)), _ => None
FloatColumn(option) == IF option.some THEN Some(FormatF64(option.value)) ELSE None

\* The position in `data` of the row dated `date`.
IndexOf(data, date) == CHOOSE n \in 1..Len(data) : data[n].date = date

\* One indicator row per row of df_new, computed over the series df_full.
IndicatorRows(df_new, df_full) ==
    LET closes == ClosesOf(df_full)
        rsi    == RSIValues(closes, RSI_PERIOD)
        stoch  == StochasticValues(df_full, K_PERIOD, K_SLOWING)
        ema20  == compute_ema(closes, EMA_PERIODS[1])
        ema50  == compute_ema(closes, EMA_PERIODS[2])
        ema200 == compute_ema(closes, EMA_PERIODS[3])
    IN [k \in 1..Len(df_new) |->
           LET n == IndexOf(df_full, df_new[k].date)
           IN [date             |-> df_new[k].date,
               rsi25            |-> FloatColumn(rsi[n]),
               stochastic14_7_7 |-> FloatColumn(stoch[n]),
               ema20            |-> FloatColumn(ema20[n]),
               ema50            |-> FloatColumn(ema50[n]),
               ema200           |-> FloatColumn(ema200[n]),
               point_pivot      |-> PointPivotAt(df_full, n)]]

\* fetch_historicdata_after for the symbol: date > cutoff, in date order
RowsAfter(data, date) == SelectSeq(data, LAMBDA h : h.date > date)

NoCalc == [op |-> "none", data |-> <<>>, last_date |-> 0, rsi |-> <<>>, stoch |-> <<>>,
           ema |-> <<>>, pivot |-> <<>>, rows |-> <<>>]

(***************************************************************************)
(* The state: the three tables, the create_trade calls in progress and the *)
(* response of the call that returned last.                                *)
(***************************************************************************)
ProcIds == {1, 2}

Store == [trades |-> trades, closed |-> closed, wallet |-> wallet]

NoResponse == [op |-> "none", user_id |-> 0, request |-> NoRequest, body |-> NoBody,
               outcome |-> "none", trade_id |-> 0, treasury |-> 0, shortage |-> 0]

Response(p) ==
    [NoResponse EXCEPT !.op = "create_trade", !.user_id = p.user_id,
                       !.request = p.request, !.outcome = p.outcome,
                       !.trade_id = p.trade_id, !.treasury = p.treasury,
                       !.shortage = p.shortage]

Init ==
    /\ trades = <<>>
    /\ closed = <<>>
    /\ wallet = <<>>
    /\ procs = [p \in ProcIds |-> Idle]
    /\ last = NoResponse
    /\ historic = {}
    /\ indicators = {}
    /\ batch = IdleBatch
    /\ report = NoReport
    /\ results = {}
    /\ strategy_run = IdleRun
    /\ signal = NoSignal
    /\ calc = NoCalc

AddTransaction(user_id, body) ==
    /\ Len(wallet) < MaxWallet
    /\ IF ValidTransaction(body)
       THEN /\ wallet' = Append(wallet, NewTransaction(user_id, body))
            /\ last' = [NoResponse EXCEPT !.op = "add_transaction", !.user_id = user_id,
                                          !.body = body, !.outcome = "created"]
       ELSE /\ wallet' = wallet
            /\ last' = [NoResponse EXCEPT !.op = "add_transaction", !.user_id = user_id,
                                          !.body = body, !.outcome = "bad_request"]
    /\ UNCHANGED <<trades, closed, procs, batch_vars, strategy_vars, signal, calc>>

\* A create_trade call that runs from the request to the response with no other
\* call in between.
CreateTrade(user_id, request, order) ==
    /\ Len(trades) < MaxTrades
    /\ \A p \in ProcIds : procs[p].pc = "idle"
    /\ \E r \in {Run(Store, Start(user_id, request, order))} :
          /\ trades' = r.store.trades
          /\ closed' = r.store.closed
          /\ wallet' = r.store.wallet
          /\ last' = Response(r.proc)
    /\ UNCHANGED <<procs, batch_vars, strategy_vars, signal, calc>>

\* The same call, one store operation at a time, for calls that overlap.
InFlightInserts ==
    Cardinality({p \in ProcIds : procs[p].pc # "idle" /\ procs[p].trade_id = 0})

BeginTrade(p, user_id, request, order) ==
    /\ procs[p].pc = "idle"
    /\ Len(trades) + InFlightInserts < MaxTrades
    /\ procs' = [procs EXCEPT ![p] = Start(user_id, request, order)]
    /\ UNCHANGED <<trades, closed, wallet, last, batch_vars, strategy_vars, signal, calc>>

StepTrade(p) ==
    /\ procs[p].pc \notin {"idle", "done"}
    /\ \E r \in {Step(Store, procs[p])} :
          /\ trades' = r.store.trades
          /\ closed' = r.store.closed
          /\ wallet' = r.store.wallet
          /\ procs' = [procs EXCEPT ![p] = r.proc]
    /\ UNCHANGED <<last, batch_vars, strategy_vars, signal, calc>>

ReturnTrade(p) ==
    /\ procs[p].pc = "done"
    /\ last' = Response(procs[p])
    /\ procs' = [procs EXCEPT ![p] = Idle]
    /\ UNCHANGED <<trades, closed, wallet, batch_vars, strategy_vars, signal, calc>>

(***************************************************************************)
(* The indicator batch, one store operation at a time.  calculate_all_     *)
(* indicators runs for the symbols of the stock table (routes/admin.rs,    *)
(* execute_default_strategies); price rows arrive between two runs.        *)
(***************************************************************************)
FeedPrices(symbol, date) ==
    /\ batch.pc = "idle"
    /\ [symbol |-> symbol, date |-> date] \notin historic
    /\ historic' = historic \cup {[symbol |-> symbol, date |-> date]}
    /\ UNCHANGED <<indicators, batch, report, trade_vars, strategy_vars, signal, calc>>

\* get_existing_symbols and the split of the requested symbols.
calculate_all_indicators(symbols) ==
    /\ batch.pc = "idle"
    /\ LET b == [IdleBatch EXCEPT !.symbols = symbols,
                                  !.existing_symbols = ExistingSymbols(symbols, indicators),
                                  !.new_symbols = NewSymbols(symbols, indicators),
                                  !.start = indicators]
       IN batch' = [b EXCEPT !.pc = IF b.existing_symbols # {}
                                    THEN "process_existing" ELSE AfterFluxA(b)]
    /\ UNCHANGED <<historic, indicators, report, trade_vars, strategy_vars, signal, calc>>

\* process_existing_symbols up to the upsert: the watermark, the window, the
\* new dates and their indicators.
process_existing_symbols ==
    /\ batch.pc = "process_existing"
    /\ IF indicators = {}
       THEN batch' = [batch EXCEPT !.pc = AfterFluxA(batch)]
       ELSE LET last_date == MaxDate(indicators)
                df_full == fetch_historicdata_after(historic, Cutoff(last_date),
                                                    batch.existing_symbols)
                df_new_dates == NewDates(df_full, last_date)
            IN IF df_full = {} \/ df_new_dates = {}
               THEN batch' = [batch EXCEPT !.last_date = last_date,
                                           !.pc = AfterFluxA(batch)]
               ELSE batch' = [batch EXCEPT
                                 !.last_date = last_date, !.flux = "A",
                                 !.symbol_data =
                                     SymbolData(merge_indicators(df_new_dates, df_full)),
                                 !.pc = "by_symbol"]
    /\ UNCHANGED <<historic, indicators, report, trade_vars, strategy_vars, signal, calc>>

\* process_new_symbols up to the insert: the whole history and its indicators.
process_new_symbols ==
    /\ batch.pc = "process_new"
    /\ LET df_all == fetch_all_for_symbols(historic, batch.new_symbols)
       IN IF df_all = {}
          THEN batch' = [batch EXCEPT !.pc = "return"]
          ELSE batch' = [batch EXCEPT
                            !.flux = "B",
                            !.symbol_data = SymbolData(merge_indicators(df_all, df_all)),
                            !.pc = "by_symbol"]
    /\ UNCHANGED <<historic, indicators, report, trade_vars, strategy_vars, signal, calc>>

\* for (symbol, rows) in symbol_data.iter(): a HashMap, so in any order.
BeginTransaction ==
    /\ batch.pc = "by_symbol"
    /\ IF batch.symbol_data = {}
       THEN batch' = [batch EXCEPT !.pc = AfterFlux(batch)]
       ELSE \E symbol \in {r.symbol : r \in batch.symbol_data} :
               batch' = [batch EXCEPT
                            !.symbol = symbol,
                            !.rows = RowsByDate({r \in batch.symbol_data :
                                                    r.symbol = symbol}),
                            !.working = indicators, !.written = {},
                            !.pc = "in_transaction"]
    /\ UNCHANGED <<historic, indicators, report, trade_vars, strategy_vars, signal, calc>>

\* One row of the symbol, inside its transaction.
WriteRow ==
    /\ batch.pc = "in_transaction"
    /\ batch.rows # <<>>
    /\ LET row == Head(batch.rows)
       IN /\ batch.flux = "B" => ~RowExists(batch.working, row)
          /\ batch' = [batch EXCEPT
                          !.working = IF batch.flux = "A"
                                      THEN UpsertRow(batch.working, row)
                                      ELSE InsertRow(batch.working, row),
                          !.written = batch.written \cup {row},
                          !.rows = Tail(batch.rows)]
    /\ UNCHANGED <<historic, indicators, report, trade_vars, strategy_vars, signal, calc>>

\* txn.commit() and total_inserted += rows.len()
CommitTransaction ==
    /\ batch.pc = "in_transaction"
    /\ batch.rows = <<>>
    /\ indicators' = batch.working
    /\ batch' = [batch EXCEPT
                    !.symbol_data = {r \in batch.symbol_data : r.symbol # batch.symbol},
                    !.total_inserted = batch.total_inserted
                                           + Cardinality(batch.written),
                    !.committed = batch.committed \cup {batch.symbol},
                    !.symbol = "", !.working = {}, !.written = {},
                    !.pc = "by_symbol"]
    /\ UNCHANGED <<historic, report, trade_vars, strategy_vars, signal, calc>>

ReportOf(b, outcome, failed) ==
    [outcome |-> outcome, total_inserted |-> b.total_inserted, symbols |-> b.symbols,
     committed |-> b.committed, failed |-> failed, written |-> b.written,
     start |-> b.start, historic |-> historic]

\* A query, insert, update or commit of the transaction fails (or an insert
\* meets a row that exists): `?` returns the error through every caller, the
\* transaction is dropped and the run ends.
PersistenceError ==
    /\ batch.pc = "in_transaction"
    /\ indicators' = Rollback(indicators, batch.working)
    /\ report' = ReportOf(batch, "error", batch.symbol)
    /\ batch' = IdleBatch
    /\ UNCHANGED <<historic, trade_vars, strategy_vars, signal, calc>>

\* The process stops in the middle of a run; an open transaction is lost.
Interrupt ==
    /\ batch.pc \notin {"idle", "return"}
    /\ indicators' = IF batch.pc = "in_transaction"
                     THEN Rollback(indicators, batch.working) ELSE indicators
    /\ report' = ReportOf(batch, "interrupted", batch.symbol)
    /\ batch' = IdleBatch
    /\ UNCHANGED <<historic, trade_vars, strategy_vars, signal, calc>>

\* Ok("Calculated and saved {} indicator records")
ReturnBatch ==
    /\ batch.pc = "return"
    /\ report' = ReportOf(batch, "ok", "")
    /\ batch' = IdleBatch
    /\ UNCHANGED <<historic, indicators, trade_vars, strategy_vars, signal, calc>>

(***************************************************************************)
(* The strategy batch after its indicator step: execute_default_strategies *)
(* saves the recommendations of each strategy, one save_result at a time.  *)
(***************************************************************************)
\* calculate_batch of every strategy: the (strategy, symbol) pairs answered.
execute_default_strategies(today, covered) ==
    /\ strategy_run.pc = "idle"
    /\ strategy_run' = [pc |-> "saving", pending |-> PendingFrom(1, covered),
                        today |-> today]
    /\ UNCHANGED <<results, trade_vars, batch_vars, signal, calc>>

\* save_result(id, &rec.symbol, &rec, db).await? returns Ok
SaveResult(rec) ==
    /\ strategy_run.pc = "saving"
    /\ strategy_run.pending # <<>>
    /\ LET target == Head(strategy_run.pending)
       IN results' = save_result(results, target.strategy_id, target.symbol, rec,
                                 strategy_run.today)
    /\ strategy_run' = [strategy_run EXCEPT !.pending = Tail(strategy_run.pending)]
    /\ UNCHANGED <<trade_vars, batch_vars, signal, calc>>

\* The query, the update or the insert of save_result fails (a key the table
\* enforces, the connection): `?` ends the run.
SaveResultError ==
    /\ strategy_run.pc = "saving"
    /\ strategy_run.pending # <<>>
    /\ strategy_run' = IdleRun
    /\ UNCHANGED <<results, trade_vars, batch_vars, signal, calc>>

\* Ok(all_results)
ReturnStrategies ==
    /\ strategy_run.pc = "saving"
    /\ strategy_run.pending = <<>>
    /\ strategy_run' = IdleRun
    /\ UNCHANGED <<results, trade_vars, batch_vars, signal, calc>>

(***************************************************************************)
(* The calculate_batch calls of the default strategies, each on what the   *)
(* store holds when it runs.  A call reads the store and writes nothing,   *)
(* so a behaviour holds one call: a later one would read the same tables.  *)
(***************************************************************************)
RunMinMaxLastYear(rows) ==
    /\ signal' = [NoSignal EXCEPT !.strategy = "MinMaxLastYear", !.rows = rows,
                                  !.recs = MinMaxLastYear_calculate_batch(rows)]
    /\ UNCHANGED <<trade_vars, batch_vars, strategy_vars, calc>>

RunStochasticStrategy(latest) ==
    /\ signal' = [NoSignal EXCEPT
                     !.strategy = "Stochastic", !.latest = latest,
                     !.recs = StochasticStrategy_calculate_batch(SymbolSeq(Symbols),
                                                                 latest)]
    /\ UNCHANGED <<trade_vars, batch_vars, strategy_vars, calc>>

RunRSIStrategy(latest) ==
    /\ signal' = [NoSignal EXCEPT
                     !.strategy = "RSI", !.latest = latest,
                     !.recs = RSIStrategy_calculate_batch(SymbolSeq(Symbols), latest)]
    /\ UNCHANGED <<trade_vars, batch_vars, strategy_vars, calc>>

RunEMAStrategy(latest, closes) ==
    /\ signal' = [NoSignal EXCEPT
                     !.strategy = "EMA", !.latest = latest, !.closes = closes,
                     !.recs = EMAStrategy_calculate_batch(SymbolSeq(Symbols), latest,
                                                          closes)]
    /\ UNCHANGED <<trade_vars, batch_vars, strategy_vars, calc>>

RunPointPivotStrategy(latest, closes) ==
    /\ signal' = [NoSignal EXCEPT
                     !.strategy = "PointPivot", !.latest = latest, !.closes = closes,
                     !.recs = PointPivotStrategy_calculate_batch(SymbolSeq(Symbols),
                                                                 latest, closes)]
    /\ UNCHANGED <<trade_vars, batch_vars, strategy_vars, calc>>

(***************************************************************************)
(* The indicator computation of one symbol, with the price rows `data` of  *)
(* the symbol in the store.                                                *)
(***************************************************************************)
\* process_new_symbols: df_new = df_full = every row of the symbol.
ProcessNewSymbol(data) ==
    /\ calc' = [NoCalc EXCEPT !.op = "full", !.data = data,
                               !.rows = IndicatorRows(data, data)]
    /\ UNCHANGED <<trade_vars, batch_vars, strategy_vars, signal>>

\* process_existing_symbols with the watermark last_date: df_full holds the
\* rows after last_date - 365 days, df_new_dates those after last_date.
ProcessExistingSymbol(data, last_date) ==
    /\ LET df_full == RowsAfter(data, Cutoff(last_date))
           df_new_dates == RowsAfter(df_full, last_date)
       IN calc' = [NoCalc EXCEPT !.op = "incremental", !.data = data,
                                  !.last_date = last_date,
                                  !.rows = IndicatorRows(df_new_dates, df_full)]
    /\ UNCHANGED <<trade_vars, batch_vars, strategy_vars, signal>>

\* RSICalculator::calculate with df_new = df_full: the rsi25 of every row.
CalculateRSI(data) ==
    /\ calc' = [NoCalc EXCEPT !.op = "rsi", !.data = data,
                               !.rsi = RSIValues(ClosesOf(data), RSI_PERIOD)]
    /\ UNCHANGED <<trade_vars, batch_vars, strategy_vars, signal>>

\* StochasticCalculator::calculate: the stochastic14_7_7 of every row.
CalculateStochastic(data) ==
    /\ calc' = [NoCalc EXCEPT !.op = "stochastic", !.data = data,
                               !.stoch = StochasticValues(data, K_PERIOD, K_SLOWING)]
    /\ UNCHANGED <<trade_vars, batch_vars, strategy_vars, signal>>

\* EMACalculator::calculate: ema20, ema50 and ema200 of every row.
CalculateEMA(data) ==
    /\ calc' = [NoCalc EXCEPT !.op = "ema", !.data = data,
                               !.ema = [k \in 1..Len(EMA_PERIODS) |->
                                           compute_ema(ClosesOf(data), EMA_PERIODS[k])]]
    /\ UNCHANGED <<trade_vars, batch_vars, strategy_vars, signal>>

\* PointPivotCalculator::calculate: the point_pivot of every row.
CalculatePointPivot(data) ==
    /\ calc' = [NoCalc EXCEPT !.op = "point_pivot", !.data = data,
                               !.pivot = PointPivotValues(data)]
    /\ UNCHANGED <<trade_vars, batch_vars, strategy_vars, signal>>

(***************************************************************************)
(* Specifications.  Spec: calls one after the other.  SpecConc: up to two  *)
(* create_trade calls of one user overlap.                                 *)
(***************************************************************************)
\* The BUY requests of Spec: the CAD instrument in either quantity, at 50 on
\* day 1 and at 60 on day 2; the USD instrument 5 at a time at 50 on day 1.
BuyRequests ==
    {r \in [symbol : Symbols, trade_type : {"achat"}, quantite : Quantities,
            prix_unitaire : Prices, date : Dates] :
        /\ r.date = 1 <=> r.prix_unitaire = 50
        /\ r.symbol = "UUU" => (r.quantite = 5 /\ r.date = 1)}

SellRequests ==
    {r \in [symbol : Symbols, trade_type : {"vente"}, quantite : Quantities,
            prix_unitaire : SellPrices, date : SellDates] :
        r.symbol = "UUU" => r.quantite = 5}

Requests == BuyRequests \cup SellRequests

Deposits == [date : {1}, action : {"ajout"}, symbol : {""}, amount : Amounts,
             currency : Currencies]

\* The orders in which the store may return the lots `ids`: every ranking of
\* their ids (the other ids keep their place, the query does not return them).
Orders(ids) == {f \in [1..MaxTrades -> 1..MaxTrades] :
                   /\ \A i, j \in 1..MaxTrades : f[i] = f[j] => i = j
                   /\ \A i \in 1..MaxTrades : i \notin ids => f[i] = i}

OrdersFor(user_id, request) ==
    IF request.trade_type = "vente"
    THEN Orders(EligibleBuyIds(trades, user_id, request.symbol))
    ELSE {IdentityOrder}

Next ==
    \/ \E u \in Users, body \in Deposits : AddTransaction(u, body)
    \/ \E u \in Users, request \in Requests :
           \E order \in OrdersFor(u, request) : CreateTrade(u, request, order)

Spec == Init /\ [][Next]_vars

ConcRequests == [symbol : {"AAA"}, trade_type : {"achat", "vente"}, quantite : Quantities,
                 prix_unitaire : {50}, date : {1}]

ConcBodies == [date : {1}, action : {"ajout"}, symbol : {""}, amount : Amounts,
               currency : {"CAD"}]

NextConc ==
    \/ \E u \in Users, body \in ConcBodies : AddTransaction(u, body)
    \/ \E p \in ProcIds, u \in Users, request \in ConcRequests :
           BeginTrade(p, u, request, IdentityOrder)
    \/ \E p \in ProcIds : StepTrade(p)
    \/ \E p \in ProcIds : ReturnTrade(p)

SpecConc == Init /\ [][NextConc]_vars

\* SpecLedger: calls one after the other, with every kind of ledger entry in
\* CAD and deposits in USD.
Bodies ==
    {b \in [date : {1}, action : Actions, symbol : {""}, amount : Amounts,
            currency : Currencies] :
        b.currency = "USD" => b.action = "ajout"}

LedgerRequests ==
    [symbol : Symbols, trade_type : {"achat"}, quantite : {10},
     prix_unitaire : Prices, date : {1}]
    \cup [symbol : Symbols, trade_type : {"vente"}, quantite : {5},
          prix_unitaire : SellPrices, date : SellDates]

NextLedger ==
    \/ \E u \in Users, body \in Bodies : AddTransaction(u, body)
    \/ \E u \in Users, request \in LedgerRequests :
           \E order \in OrdersFor(u, request) : CreateTrade(u, request, order)

SpecLedger == Init /\ [][NextLedger]_vars

\* SpecUsers: calls of two users, one after the other, on one instrument.
TwoUsers == {1, 2}

UserRequests ==
    [symbol : {"AAA"}, trade_type : {"achat"}, quantite : Quantities,
     prix_unitaire : {50}, date : {1}]
    \cup [symbol : {"AAA"}, trade_type : {"vente"}, quantite : Quantities,
          prix_unitaire : SellPrices, date : SellDates]

NextUsers ==
    \/ \E u \in TwoUsers, body \in ConcBodies : AddTransaction(u, body)
    \/ \E u \in TwoUsers, request \in UserRequests :
           \E order \in OrdersFor(u, request) : CreateTrade(u, request, order)

SpecUsers == Init /\ [][NextUsers]_vars

\* SpecPrices: calls one after the other, with sell prices within half a percent
\* of the buy prices and further away.
NearBuyPrices == {199, 200}

NearSellPrices == {199, 200, 201, 210}

PriceRequests ==
    [symbol : {"AAA"}, trade_type : {"achat"}, quantite : {5},
     prix_unitaire : NearBuyPrices, date : {1}]
    \cup [symbol : {"AAA"}, trade_type : {"vente"}, quantite : {5},
          prix_unitaire : NearSellPrices, date : SellDates]

NextPrices ==
    \/ \E u \in Users, body \in ConcBodies : AddTransaction(u, body)
    \/ \E u \in Users, request \in PriceRequests :
           \E order \in OrdersFor(u, request) : CreateTrade(u, request, order)

SpecPrices == Init /\ [][NextPrices]_vars

\* SpecBatch: price rows arrive and the indicator batch runs, is interrupted
\* or fails.
PriceSymbols == {"AAA", "UUU"}

PriceDates == {1, 2, 400, 401}

NextBatch ==
    \/ \E symbol \in PriceSymbols, date \in PriceDates : FeedPrices(symbol, date)
    \/ calculate_all_indicators(StockSymbols)
    \/ process_existing_symbols
    \/ process_new_symbols
    \/ BeginTransaction
    \/ WriteRow
    \/ CommitTransaction
    \/ PersistenceError
    \/ Interrupt
    \/ ReturnBatch

SpecBatch == Init /\ [][NextBatch]_vars

\* SpecStrategy: runs of the strategy batch, one after the other.
NextStrategy ==
    \/ \E today \in Todays, covered \in SUBSET (StrategyIds \X Symbols) :
          execute_default_strategies(today, covered)
    \/ \E rec \in Recommendations : SaveResult(rec)
    \/ SaveResultError
    \/ ReturnStrategies

SpecStrategy == Init /\ [][NextStrategy]_vars

\* SpecSignals: the strategies' calculate_batch on minimum, maximum and current
\* prices around the 20 % and 80 % marks, on oscillator values around the
\* thresholds, and on closes below, at and above the averages.
MinMaxPrices == {10, 12, 13, 18, 20}

CurrentPrices == {None, Some(0)} \cup {Some(p) : p \in MinMaxPrices}

MinMaxRows(symbol) ==
    {r \in [symbol : {symbol}, min_price : MinMaxPrices, max_price : MinMaxPrices,
            current_price : CurrentPrices] : r.min_price <= r.max_price}

MinMaxResults ==
    LET symbols == SymbolSeq(Symbols)
    IN {<<>>} \cup {<<r>> : r \in MinMaxRows(symbols[1])}
              \cup {<<r1, r2>> : r1 \in MinMaxRows(symbols[1]),
                                 r2 \in MinMaxRows(symbols[2])}

OscillatorValues == {0, 20, 21, 79, 80, 100}

AverageValues == {9, 10, 11}

ClosePrices == {10}

OscillatorColumns == {NullColumn} \cup {NumberColumn(v) : v \in OscillatorValues}

AverageColumns == {NullColumn} \cup {NumberColumn(v) : v \in AverageValues}

StochasticRows ==
    {NoRow} \cup {Some([NoIndicators EXCEPT !.stochastic14_7_7 = c]) :
                    c \in OscillatorColumns}

RSIRows ==
    {NoRow} \cup {Some([NoIndicators EXCEPT !.rsi25 = c]) : c \in OscillatorColumns}

EMARows ==
    {NoRow} \cup {Some([NoIndicators EXCEPT !.ema20 = c[1], !.ema50 = c[2],
                                           !.ema200 = c[3]]) :
                    c \in AverageColumns \X AverageColumns \X AverageColumns}

Closes ==
    {NoClose, Some(NullColumn), Some(TextColumn)}
        \cup {Some(NumberColumn(p)) : p \in ClosePrices}

PivotPrices == {100, 101}

\* The high, low and first open of a window whose last close is the price.
WindowBars(price) ==
    {b \in (price..(price + 2)) \X ((price - 2)..price) \X ((price - 2)..(price + 2)) :
        b[3] \in {b[1], b[2]}}

WindowPivot(price, bar) ==
    SomePivot(calculate_camarilla_pivots(bar[1], bar[2], price, bar[3]))

\* A longer window holds the shorter one: its high is no lower, its low no higher.
Holds(longer, shorter) == longer[1] >= shorter[1] /\ longer[2] <= shorter[2]

\* The JSON of the latest row: the week alone, the week and the month, or all three.
PivotJsons(price) ==
    {[week |-> WindowPivot(price, w), month |-> NoPivot, year |-> NoPivot] :
        w \in WindowBars(price)}
    \cup {[week |-> WindowPivot(price, b[1]), month |-> WindowPivot(price, b[2]),
           year |-> NoPivot] :
            b \in {c \in WindowBars(price) \X WindowBars(price) : Holds(c[2], c[1])}}
    \cup {[week |-> WindowPivot(price, b[1]), month |-> WindowPivot(price, b[2]),
           year |-> WindowPivot(price, b[3])] :
            b \in {c \in WindowBars(price) \X WindowBars(price) \X WindowBars(price) :
                      Holds(c[2], c[1]) /\ Holds(c[3], c[2])}}

PivotRow(json) == Some([NoIndicators EXCEPT !.point_pivot = [some |-> TRUE, value |-> json]])

WeekAlone(price) ==
    [week |-> WindowPivot(price, <<price, price, price>>), month |-> NoPivot,
     year |-> NoPivot]

\* A symbol without a recommendation: no indicator row, a NULL point_pivot, no
\* price row, or a close that is NULL or no number.
MissingCases ==
    {[row |-> NoRow, close |-> NoClose],
     [row |-> Some(NoIndicators), close |-> Some(NumberColumn(100))],
     [row |-> PivotRow(WeekAlone(100)), close |-> NoClose],
     [row |-> PivotRow(WeekAlone(100)), close |-> Some(NullColumn)],
     [row |-> PivotRow(WeekAlone(100)), close |-> Some(TextColumn)]}

PivotCases ==
    MissingCases
    \cup UNION {{[row |-> PivotRow(json), close |-> Some(NumberColumn(price))] :
                    json \in PivotJsons(price)} : price \in PivotPrices}

FewPivotCases ==
    MissingCases
    \cup {[row |-> PivotRow(WeekAlone(100)), close |-> Some(NumberColumn(100))]}

\* The first symbol is in the first case and the others in the second.
CaseOf(first, second) ==
    [symbol \in Symbols |-> IF symbol = SymbolSeq(Symbols)[1] THEN first ELSE second]

NextSignals ==
    \/ signal = NoSignal /\ \E rows \in MinMaxResults : RunMinMaxLastYear(rows)
    \/ signal = NoSignal /\ \E latest \in [Symbols -> StochasticRows] :
                                RunStochasticStrategy(latest)
    \/ signal = NoSignal /\ \E latest \in [Symbols -> RSIRows] :
                                RunRSIStrategy(latest)
    \/ signal = NoSignal /\ \E latest \in [Symbols -> EMARows],
                                closes \in [Symbols -> Closes] :
                                RunEMAStrategy(latest, closes)
    \/ signal = NoSignal /\ \E first \in PivotCases, second \in FewPivotCases :
                                RunPointPivotStrategy(
                                    [symbol \in Symbols |-> CaseOf(first, second)[symbol].row],
                                    [symbol \in Symbols |-> CaseOf(first, second)[symbol].close])

SpecSignals == Init /\ [][NextSignals]_vars

\* SpecSymbols: calls one after the other, for an instrument of the stock table
\* and for a symbol that is not in it.
RequestSymbols == {"AAA", "ZZZ"}

SymbolRequests ==
    [symbol : RequestSymbols, trade_type : {"achat"}, quantite : Quantities,
     prix_unitaire : {50}, date : {1}]
    \cup [symbol : RequestSymbols, trade_type : {"vente"}, quantite : {5},
          prix_unitaire : SellPrices, date : SellDates]

NextSymbols ==
    \/ \E u \in Users, body \in ConcBodies : AddTransaction(u, body)
    \/ \E u \in Users, request \in SymbolRequests :
           \E order \in OrdersFor(u, request) : CreateTrade(u, request, order)

SpecSymbols == Init /\ [][NextSymbols]_vars

\* SpecDates: calls one after the other on one instrument, with the dates the
\* client chooses: a sale may be dated before, on or after a purchase.
TradeDates == {1, 2, 3}

SaleDates == {1, 3}

DateRequests ==
    [symbol : {"AAA"}, trade_type : {"achat"}, quantite : Quantities,
     prix_unitaire : {50}, date : TradeDates]
    \cup [symbol : {"AAA"}, trade_type : {"vente"}, quantite : Quantities,
          prix_unitaire : SellPrices, date : SaleDates]

NextDates ==
    \/ \E u \in Users, body \in ConcBodies : AddTransaction(u, body)
    \/ \E u \in Users, request \in DateRequests :
           \E order \in OrdersFor(u, request) : CreateTrade(u, request, order)

SpecDates == Init /\ [][NextDates]_vars

\* SpecIndicators: one indicator computation over the price rows of one symbol.
\* A series is named by its shape; its rows are daily, after `old` rows dated
\* more than a year before the others.
VariedShapes == {"flat", "rising", "falling", "zigzag", "wave"}

LateShapes == {"flat", "late_rise", "late_fall"}

ShapeClose(shape, i, n) ==
    CASE shape = "flat"      -> 10
      [] shape = "rising"    -> 10 + i
      [] shape = "falling"   -> 500 - i
      [] shape = "zigzag"    -> 10 + 3 * (i % 2)
      [] shape = "wave"      -> 10 + ((i * 7) % 5)
      [] shape = "late_rise" -> IF i = n THEN 11 ELSE IF i = n - 1 THEN 12 ELSE 10
      [] shape = "late_fall" -> IF i = n THEN 9 ELSE IF i = n - 1 THEN 8 ELSE 10

ShapeSpread(shape) == IF shape \in LateShapes THEN 0 ELSE 1

PriceRow(shape, i, n, old) ==
    [date  |-> IF i <= old THEN i ELSE 400 + i,
     open  |-> IF i = 1 THEN ShapeClose(shape, 1, n) ELSE ShapeClose(shape, i - 1, n),
     high  |-> ShapeClose(shape, i, n) + ShapeSpread(shape),
     low   |-> ShapeClose(shape, i, n) - ShapeSpread(shape),
     close |-> ShapeClose(shape, i, n)]

PriceRows(shape, n, old) == [i \in 1..n |-> PriceRow(shape, i, n, old)]

ShortLengths == 1..23

LongLengths == {26, 27, 28, 50, 51, 52, 200, 201, 202}

YearLengths == {364, 365, 366, 367}

RSILengths == 24..30

StochasticLengths == 18..24

PivotLengths == 1..9 \cup 28..32 \cup YearLengths

OldRows == 0..2

\* Series whose exponential averages stay short fractions: any shape up to 23
\* rows, and longer ones that move in their last two rows only.
AverageSeries ==
    {PriceRows(shape, n, 0) : shape \in VariedShapes, n \in ShortLengths}
    \cup {PriceRows(shape, n, 0) : shape \in LateShapes, n \in LongLengths}

HistorySeries ==
    {PriceRows(shape, n, old) : shape \in VariedShapes, n \in 20..23, old \in OldRows}
    \cup {PriceRows(shape, n, 0) : shape \in LateShapes, n \in LongLengths}

\* The watermark is the date of one of the two rows before the last.
Watermarks(data) == {data[w].date : w \in {Len(data) - 2, Len(data) - 1}}

NextIndicators ==
    \/ calc = NoCalc /\ \E shape \in VariedShapes \cup LateShapes, n \in RSILengths :
                            CalculateRSI(PriceRows(shape, n, 0))
    \/ calc = NoCalc /\ \E shape \in VariedShapes \cup LateShapes, n \in StochasticLengths :
                            CalculateStochastic(PriceRows(shape, n, 0))
    \/ calc = NoCalc /\ \E data \in AverageSeries : CalculateEMA(data)
    \/ calc = NoCalc /\ \E shape \in VariedShapes, n \in PivotLengths :
                            CalculatePointPivot(PriceRows(shape, n, 0))
    \/ calc = NoCalc /\ \E data \in HistorySeries : ProcessNewSymbol(data)
    \/ calc = NoCalc /\ \E data \in HistorySeries :
                            \E last_date \in Watermarks(data) :
                                ProcessExistingSymbol(data, last_date)

SpecIndicators == Init /\ [][NextIndicators]_vars

(***************************************************************************)
(* Properties.  In Spec and SpecLedger every step that is not a stuttering *)
(* step sets `last` to the response of the call it models, so a step with  *)
(* last'.op = "create_trade" is the call of last'.request by last'.user_id *)
(* from the unprimed state to the primed one.                              *)
(***************************************************************************)
BuyLotIds == {i \in 1..Len(trades) : trades[i].trade_type = "achat"}

LotsOf(user_id, symbol) ==
    {i \in BuyLotIds : trades[i].user_id = user_id /\ trades[i].symbol = symbol}

\* Quantity closed against lot i by the closed trades that reference it.
ClosedQuantity(i) ==
    SumOver({k \in 1..Len(closed) : closed[k].trade_achat_id = i},
            [k \in 1..Len(closed) |-> closed[k].quantity])

RemainingOf(user_id, symbol) ==
    SumOver(LotsOf(user_id, symbol),
            [i \in 1..Len(trades) |-> trades[i].quantite_restante])

IsTradeStep == vars' # vars /\ last'.op = "create_trade"

IsSellStep == IsTradeStep /\ last'.request.trade_type = "vente"

IsBuyStep == IsTradeStep /\ last'.request.trade_type = "achat"

\* C1: a SELL of more than the user's remaining quantity of the symbol returns
\* the short-selling error and leaves every quantite_restante and the closed
\* trades as they were before the call.
C1_RejectedSellSettlesNothing ==
    [][(IsSellStep /\ last'.request.quantite >
                         RemainingOf(last'.user_id, last'.request.symbol))
         => /\ last'.outcome = "short_selling"
            /\ closed' = closed
            /\ \A i \in 1..Len(trades) :
                   trades'[i].quantite_restante = trades[i].quantite_restante]_vars

\* C2: for every BUY lot, the quantities of the closed trades that reference it
\* plus its quantite_restante equal its quantite, after any sequence of calls.
C2_Conservation ==
    \A i \in BuyLotIds :
        ClosedQuantity(i) + trades[i].quantite_restante = trades[i].quantite

\* A lot closed by two sells, the second of them rejected.
C2_Witness ==
    /\ last.outcome = "short_selling"
    /\ \E i \in BuyLotIds :
          Cardinality({k \in 1..Len(closed) : closed[k].trade_achat_id = i}) = 2

\* C3: at the end of a SELL settlement, a lot that got a closed trade from this
\* sell has no lot of the same user and symbol with an earlier date that still
\* has quantite_restante > 0.
SettledBy(sale_id) == {k \in 1..Len(closed) : closed[k].trade_vente_id = sale_id}

LedgerTotal(user_id, currency) ==
    SumOver({k \in 1..Len(wallet) :
                wallet[k].user_id = user_id /\ wallet[k].currency = currency},
            [k \in 1..Len(wallet) |->
                IF wallet[k].action \in {"gain", "ajout"}
                THEN wallet[k].amount ELSE 0 - wallet[k].amount])

OpenCost(user_id, currency) ==
    SumOver({i \in BuyLotIds : /\ trades[i].user_id = user_id
                               /\ StockCurrency(trades[i].symbol) = currency},
            [i \in 1..Len(trades) |->
                trades[i].quantite_restante * trades[i].prix_unitaire])

TreasuryBefore(user_id, currency) ==
    LedgerTotal(user_id, currency) - OpenCost(user_id, currency)

C4_BuyGate ==
    [][(IsBuyStep /\ StockFound(last'.request.symbol)) =>
         LET request  == last'.request
             required == request.quantite * request.prix_unitaire
             treasury == TreasuryBefore(last'.user_id, StockCurrency(request.symbol))
         IN IF treasury >= required
            THEN /\ last'.outcome = "ok"
                 /\ Len(trades') = Len(trades) + 1
            ELSE /\ last'.outcome = "insufficient_funds"
                 /\ last'.shortage = required - treasury
                 /\ trades' = trades /\ closed' = closed /\ wallet' = wallet]_vars

\* A BUY refused with a shortage, and one admitted with the treasury equal to
\* its cost, have both happened.
C4_Witness ==
    /\ last.op = "create_trade" /\ last.outcome = "insufficient_funds"
    /\ last.shortage = 100
    /\ \E i \in BuyLotIds : trades[i].prix_total = 500

\* C5: every lot has 0 <= quantite_restante <= quantite; a BUY lot is created
\* with quantite_restante = quantite; a SELL lot has quantite_restante = 0.
C5_RemainingInRange ==
    /\ \A i \in 1..Len(trades) :
          /\ 0 <= trades[i].quantite_restante
          /\ trades[i].quantite_restante <= trades[i].quantite
          /\ trades[i].trade_type = "vente" => trades[i].quantite_restante = 0
    /\ (last.op = "create_trade" /\ last.request.trade_type = "achat"
            /\ last.outcome = "ok")
          => trades[last.trade_id].quantite_restante = trades[last.trade_id].quantite

C5_Witness ==
    /\ \E i \in BuyLotIds :
          0 < trades[i].quantite_restante
              /\ trades[i].quantite_restante < trades[i].quantite
    /\ \E j \in 1..Len(trades) : trades[j].trade_type = "vente"
    /\ last.op = "create_trade" /\ last.request.trade_type = "achat"
    /\ last.outcome = "ok"

\* C6: when two SELLs of one user and symbol overlap, the quantity closed
\* against a lot never exceeds its quantite, and once both have returned its
\* quantite_restante is its quantite less everything closed against it.
C6_NoDoubleConsumption ==
    \A i \in BuyLotIds :
        /\ ClosedQuantity(i) <= trades[i].quantite
        /\ (\A p \in ProcIds : procs[p].pc = "idle")
              => trades[i].quantite_restante = trades[i].quantite - ClosedQuantity(i)

\* C7: calculate_balances has a balance for every currency of the user's
\* ledger entries and of the instruments of the user's lots, with
\* treasury = total - invested and a missing side counted as zero.
LedgerCurrencies(user_id) ==
    {wallet[k].currency : k \in {n \in 1..Len(wallet) : wallet[n].user_id = user_id}}

LotCurrencies(user_id) ==
    {StockCurrency(trades[i].symbol) :
        i \in {n \in 1..Len(trades) : trades[n].user_id = user_id}}

C7_Balances ==
    \A u \in Users :
        LET balances == calculate_balances(wallet, trades, u)
        IN \A c \in LedgerCurrencies(u) \cup LotCurrencies(u) :
              \E k \in 1..Len(balances) :
                 /\ balances[k].currency = c
                 /\ balances[k].treasury = balances[k].total - balances[k].invested
                 /\ c \notin LedgerCurrencies(u) => balances[k].total = 0
                 /\ c \notin LotCurrencies(u) => balances[k].invested = 0

\* One currency only in the ledger and another only in the lots.
C7_Witness ==
    \E u \in Users :
        /\ LedgerCurrencies(u) \ LotCurrencies(u) # {}
        /\ LotCurrencies(u) \ LedgerCurrencies(u) # {}

\* C8: a successful SELL of q adds one closed trade per lot it consumes from
\* and none for the others; each closes min(still to sell, the lot's
\* quantite_restante), the closed quantities sum to q, and each gain is
\* (sell price - the lot's buy price) * closed quantity.
RECURSIVE SumQuantity(_)
SumQuantity(records) ==
    IF records = <<>> THEN 0 ELSE Head(records).quantity + SumQuantity(Tail(records))

C8_SellRecords ==
    [][(IsSellStep /\ last'.outcome = "ok") =>
         LET q       == last'.request.quantite
             sale_id == last'.trade_id
             n       == Len(closed)
             new     == SubSeq(closed', n + 1, Len(closed'))
             lots    == LotsOf(last'.user_id, last'.request.symbol)
             matched == {new[k].trade_achat_id : k \in 1..Len(new)}
         IN /\ SubSeq(closed', 1, n) = closed
            /\ matched \subseteq lots
            /\ Cardinality(matched) = Len(new)
            /\ \A k \in 1..Len(new) :
                  LET b == new[k].trade_achat_id
                  IN /\ new[k].trade_vente_id = sale_id
                     /\ new[k].quantity =
                            Min(q - SumQuantity(SubSeq(new, 1, k - 1)),
                                trades[b].quantite_restante)
                     /\ new[k].quantity > 0
                     /\ new[k].gain_dollars =
                            (last'.request.prix_unitaire - trades[b].prix_unitaire)
                                * new[k].quantity
                     /\ trades'[b].quantite_restante =
                            trades[b].quantite_restante - new[k].quantity
            /\ \A i \in 1..Len(trades) :
                  i \notin matched => trades'[i] = trades[i]
            /\ SumQuantity(new) = q]_vars

\* A successful sell that closed one lot whole and a part of another.
C8_Witness ==
    /\ last.op = "create_trade" /\ last.request.trade_type = "vente"
    /\ last.outcome = "ok"
    /\ Cardinality(SettledBy(last.trade_id)) = 2
    /\ \E k \in SettledBy(last.trade_id) :
          trades[closed[k].trade_achat_id].quantite_restante > 0

\* C9: get_available_quantity is the sum of quantite_restante over the user's
\* BUY lots of the symbol, and a SELL of q is accepted iff q is at most that
\* sum as it was just before the sell.
C9_StateAvailable ==
    \A u \in Users, symbol \in Symbols :
        get_available_quantity(trades, u, symbol) = RemainingOf(u, symbol)

C9_Available ==
    /\ []C9_StateAvailable
    /\ [][IsSellStep =>
            (last'.outcome = "ok"
                <=> last'.request.quantite
                        <= RemainingOf(last'.user_id, last'.request.symbol))]_vars

\* A sell of exactly the quantity available was accepted while a lot of the
\* other symbol stays open.
C9_Witness ==
    /\ last.op = "create_trade" /\ last.request.trade_type = "vente"
    /\ last.outcome = "ok"
    /\ RemainingOf(last.user_id, last.request.symbol) = 0
    /\ \E symbol \in Symbols : RemainingOf(last.user_id, symbol) > 0

\* C10: a successful BUY of cost c in currency k raises invested[k] by c,
\* lowers treasury[k] by c and leaves total[k] and the other currencies'
\* balances as they were; after a deposit of 1000 and a buy of 10 at 50 the
\* treasury is 500 and a buy of 10 at 60 is refused with a shortage of 100.
BalanceIn(balances, currency) ==
    IF \E k \in 1..Len(balances) : balances[k].currency = currency
    THEN balances[CHOOSE k \in 1..Len(balances) : balances[k].currency = currency]
    ELSE [currency |-> currency, total |-> 0, invested |-> 0, treasury |-> 0]

ScenarioState ==
    /\ Len(wallet) = 1
    /\ wallet[1].action = "ajout" /\ wallet[1].amount = 1000
    /\ wallet[1].currency = "CAD"
    /\ Len(trades) = 1
    /\ trades[1].trade_type = "achat" /\ trades[1].symbol = "AAA"
    /\ trades[1].quantite = 10 /\ trades[1].prix_unitaire = 50
    /\ trades[1].user_id = wallet[1].user_id

C10_BuyStep ==
    (IsBuyStep /\ last'.outcome = "ok") =>
        LET u      == last'.user_id
            k      == StockCurrency(last'.request.symbol)
            c      == last'.request.quantite * last'.request.prix_unitaire
            before == calculate_balances(wallet, trades, u)
            after  == calculate_balances(wallet', trades', u)
        IN /\ BalanceIn(after, k).invested = BalanceIn(before, k).invested + c
           /\ BalanceIn(after, k).treasury = BalanceIn(before, k).treasury - c
           /\ BalanceIn(after, k).total = BalanceIn(before, k).total
           /\ SelectSeq(after, LAMBDA b : b.currency # k)
                  = SelectSeq(before, LAMBDA b : b.currency # k)

C10_ScenarioStep ==
    (ScenarioState /\ IsBuyStep /\ last'.user_id = trades[1].user_id
        /\ last'.request.symbol = "AAA" /\ last'.request.quantite = 10
        /\ last'.request.prix_unitaire = 60)
    => last'.outcome = "insufficient_funds" /\ last'.shortage = 100

C10_BuyFrame ==
    /\ [](ScenarioState =>
             get_treasury_for_currency(wallet, trades, trades[1].user_id, "CAD") = 500)
    /\ [][C10_BuyStep /\ C10_ScenarioStep]_vars

C10_Witness ==
    /\ ScenarioState
    /\ last.op = "create_trade" /\ last.request.prix_unitaire = 60
    /\ last.outcome = "insufficient_funds" /\ last.shortage = 100

\* C11: calculate_balances gives, per currency, total = the user's ledger
\* amounts with gain and ajout counted positive and perte and retrait counted
\* negative, and invested = the sum over the user's BUY lots of that currency's
\* instruments of quantite_restante * prix_unitaire; SELL lots add nothing.
C11_TotalsAndInvested ==
    \A u \in Users, c \in Currencies :
        LET b == BalanceIn(calculate_balances(wallet, trades, u), c)
        IN /\ b.total = LedgerTotal(u, c)
           /\ b.invested = OpenCost(u, c)

\* A loss or withdrawal is in the ledger, a sell has settled part of a lot and
\* something stays invested.
C11_Witness ==
    /\ \E k \in 1..Len(wallet) : wallet[k].action \in {"perte", "retrait"}
    /\ \E j \in 1..Len(trades) : trades[j].trade_type = "vente"
    /\ \E i \in BuyLotIds :
          /\ 0 < trades[i].quantite_restante
          /\ trades[i].quantite_restante < trades[i].quantite
          /\ OpenCost(trades[i].user_id, StockCurrency(trades[i].symbol)) > 0

\* C12: no step deletes a lot, a closed trade or a ledger entry; a closed trade
\* or ledger entry that exists never changes; a lot changes only in its
\* quantite_restante, only when a SELL has a closed trade against it, and that
\* value never increases.
C12_LotFrame(i) ==
    /\ [trades'[i] EXCEPT !.quantite_restante = trades[i].quantite_restante] = trades[i]
    /\ trades'[i].quantite_restante <= trades[i].quantite_restante
    /\ trades'[i].quantite_restante # trades[i].quantite_restante
          => \E k \in 1..Len(closed') :
                /\ closed'[k].trade_achat_id = i
                /\ trades'[closed'[k].trade_vente_id].trade_type = "vente"

C12_AppendOnly ==
    [][/\ Len(trades') >= Len(trades)
       /\ Len(closed') >= Len(closed)
       /\ Len(wallet') >= Len(wallet)
       /\ SubSeq(closed', 1, Len(closed)) = closed
       /\ SubSeq(wallet', 1, Len(wallet)) = wallet
       /\ \A i \in 1..Len(trades) : C12_LotFrame(i)]_vars

\* C13: a create_trade call or ledger entry of user A leaves every lot,
\* closed trade, balance and available quantity of another user B as it was;
\* the FIFO settlement of A's SELL takes nothing from B's lots of the symbol.
RowsOf(rows, user_id) == SelectSeq(rows, LAMBDA r : r.user_id = user_id)

C13_UserIsolation ==
    [][\A b \in TwoUsers :
         (vars' # vars /\ last'.user_id # b) =>
            /\ \A i \in 1..Len(trades) : trades[i].user_id = b => trades'[i] = trades[i]
            /\ RowsOf(trades', b) = RowsOf(trades, b)
            /\ RowsOf(closed', b) = RowsOf(closed, b)
            /\ RowsOf(wallet', b) = RowsOf(wallet, b)
            /\ calculate_balances(wallet', trades', b) = calculate_balances(wallet, trades, b)
            /\ \A symbol \in Symbols :
                  get_available_quantity(trades', b, symbol)
                      = get_available_quantity(trades, b, symbol)]_vars

\* A sell of one user has settled while the other user holds an open lot of the
\* same symbol that was inserted before the lot the sell closed.
C13_Witness ==
    /\ last.op = "create_trade" /\ last.request.trade_type = "vente"
    /\ last.outcome = "ok"
    /\ \E k \in SettledBy(last.trade_id), i \in BuyLotIds :
          /\ trades[i].user_id # last.user_id
          /\ trades[i].symbol = last.request.symbol
          /\ trades[i].quantite_restante > 0
          /\ i < closed[k].trade_achat_id

\* C14: in every closed trade the stored pourcentage_gain is positive iff
\* prix_vente > prix_achat, negative iff prix_vente < prix_achat and zero iff
\* the two prices are equal.
C14_PctSignMatches ==
    \A k \in 1..Len(closed) :
        /\ closed[k].pourcentage_gain > 0 <=> closed[k].prix_vente > closed[k].prix_achat
        /\ closed[k].pourcentage_gain < 0 <=> closed[k].prix_vente < closed[k].prix_achat
        /\ closed[k].pourcentage_gain = 0 <=> closed[k].prix_vente = closed[k].prix_achat

\* C14 (amended): in every closed trade the stored pourcentage_gain is never of
\* the sign opposite to prix_vente - prix_achat: it is positive only if
\* prix_vente > prix_achat, negative only if prix_vente < prix_achat, and zero
\* when the prices are equal.
C14_PctSignNeverOpposite ==
    \A k \in 1..Len(closed) :
        /\ closed[k].pourcentage_gain > 0 => closed[k].prix_vente > closed[k].prix_achat
        /\ closed[k].pourcentage_gain < 0 => closed[k].prix_vente < closed[k].prix_achat
        /\ closed[k].prix_vente = closed[k].prix_achat => closed[k].pourcentage_gain = 0

\* A sale above the buy price whose percentage rounded to zero.
C14_Witness ==
    \E k \in 1..Len(closed) :
        /\ closed[k].prix_vente > closed[k].prix_achat
        /\ closed[k].pourcentage_gain = 0

\* C15: in a batch run each requested symbol goes through one path only, the
\* full path iff it had no indicator row when the run began and the incremental
\* path otherwise; the incremental path writes only rows dated after the
\* watermark (the latest date of the indicator table when the run began) and
\* every row that existed at or before the watermark stays as it was.
HadRows(start, symbol) == \E r \in start : r.symbol = symbol

C15_PathOfSymbol ==
    batch.pc = "in_transaction" =>
        /\ batch.symbol \in batch.symbols
        /\ batch.symbol \notin batch.committed
        /\ batch.flux = "A" <=> HadRows(batch.start, batch.symbol)
        /\ batch.flux = "B" <=> ~HadRows(batch.start, batch.symbol)
        /\ batch.flux = "A" =>
              \A r \in batch.written : r.date > MaxDate(batch.start)

C15_WatermarkStep ==
    (batch.pc # "idle" /\ indicators' # indicators) =>
        /\ batch.start \subseteq indicators'
        /\ batch.flux = "A" =>
              \A r \in indicators' \ indicators : r.date > MaxDate(batch.start)

C15_OnePathPerSymbol == []C15_PathOfSymbol /\ [][C15_WatermarkStep]_vars

\* A run has returned that took one symbol through the incremental path and
\* another through the full path.
C15_Witness ==
    /\ report.outcome = "ok"
    /\ \E s1, s2 \in report.committed :
          HadRows(report.start, s1) /\ ~HadRows(report.start, s2)

\* C16: when a run was interrupted after some symbols had committed and the
\* batch is then run again to completion on the same prices, the table has a
\* row for every (symbol, date) an uninterrupted run would have produced.
UpsertAll(table, rows) ==
    {r \in table : ~RowExists(rows, r)} \cup rows

\* The table an uninterrupted run leaves, from the table and prices at its start.
UninterruptedRun(ind, hist, symbols) ==
    LET existing_symbols == ExistingSymbols(symbols, ind)
        new_symbols == NewSymbols(symbols, ind)
        df_full == IF ind = {} THEN {}
                   ELSE fetch_historicdata_after(hist, Cutoff(MaxDate(ind)),
                                                 existing_symbols)
        df_new_dates == IF ind = {} THEN {} ELSE NewDates(df_full, MaxDate(ind))
        df_all == fetch_all_for_symbols(hist, new_symbols)
    IN UpsertAll(UpsertAll(ind, SymbolData(merge_indicators(df_new_dates, df_full))),
                 SymbolData(merge_indicators(df_all, df_all)))

C16_ResumedRunCatchesUp ==
    [][(/\ report.outcome = "interrupted"
        /\ report.committed # {}
        /\ report'.outcome = "ok"
        /\ report'.symbols = report.symbols
        /\ report.historic = historic)
         => \A r \in UninterruptedRun(report.start, report.historic, report.symbols) :
               RowExists(indicators', r)]_vars

\* C17: a run of the batch that follows a completed run, with the same symbols
\* and unchanged prices, changes no stored indicator row and adds none.
SecondRun ==
    /\ batch.pc # "idle"
    /\ report.outcome = "ok"
    /\ report.symbols = batch.symbols
    /\ report.historic = historic

C17_SecondRunIdempotent ==
    /\ [](SecondRun => batch.start = indicators)
    /\ [][SecondRun => indicators' = indicators]_vars

C17_Witness ==
    /\ SecondRun
    /\ batch.pc = "return"
    /\ report.total_inserted > 0
    /\ Cardinality(get_existing_symbols(indicators)) > 1

\* C18: indicator rows are persisted in one transaction per symbol; when the
\* transaction of a symbol fails, none of the rows written for it in this run
\* is in the store, and the rows of the symbols committed earlier in the run
\* are all there.
RowsOfSymbol(table, symbol) == {r \in table : r.symbol = symbol}

C18_TransactionOfSymbol ==
    batch.pc = "in_transaction" =>
        /\ \A r \in batch.written : r.symbol = batch.symbol
        /\ batch.working \ RowsOfSymbol(batch.working, batch.symbol)
               = indicators \ RowsOfSymbol(indicators, batch.symbol)

C18_FailureStep ==
    (batch.pc = "in_transaction" /\ report'.outcome = "error" /\ batch' = IdleBatch)
        => /\ RowsOfSymbol(indicators', batch.symbol)
                  = RowsOfSymbol(batch.start, batch.symbol)
           /\ \A r \in batch.written : RowExists(batch.start, r) \/ r \notin indicators'
           /\ \A s \in batch.committed :
                  RowsOfSymbol(indicators', s) = RowsOfSymbol(indicators, s)

C18_TransactionPerSymbol ==
    []C18_TransactionOfSymbol /\ [][C18_FailureStep]_vars

C18_Witness ==
    /\ batch.pc = "idle"
    /\ report.outcome = "error"
    /\ report.written # {}
    /\ report.committed # {}
    /\ \A r \in report.written : r \notin indicators
    /\ \E r \in indicators : r.symbol \in report.committed /\ r \notin report.start

\* C19: an error on one symbol is skipped for that symbol: the run goes on
\* with the remaining symbols and never fails as a whole.
C19_FailedSymbolSkipped ==
    (batch.pc = "in_transaction" /\ indicators' = Rollback(indicators, batch.working)
         /\ batch'.symbol # batch.symbol /\ report'.outcome # "interrupted")
        => /\ batch'.pc = "by_symbol"
           /\ batch'.symbols = batch.symbols
           /\ \A r \in batch.symbol_data :
                  r.symbol # batch.symbol => r \in batch'.symbol_data

C19_ErrorSkippedPerSymbol ==
    [](report.outcome # "error") /\ [][C19_FailedSymbolSkipped]_vars

\* C20: there is at most one strategy-result row per (strategy_id, symbol);
\* a save for (strategy_id, symbol) sets that row's recommendation and
\* metadata and changes no row of any other pair, the other symbols of the
\* same strategy included.
C20_OneRowPerPair ==
    \A r1 \in results, r2 \in results :
        (r1.strategy_id = r2.strategy_id /\ r1.symbol = r2.symbol) => r1 = r2

C20_SaveFrame ==
    (strategy_run.pc = "saving" /\ strategy_run.pending # <<>>)
        => LET target == Head(strategy_run.pending)
               Other(r) == ~(r.strategy_id = target.strategy_id
                             /\ r.symbol = target.symbol)
           IN /\ \A r \in results : Other(r) => r \in results'
              /\ \A r \in results' : Other(r) => r \in results

C20_SaveOverwritesOneRow ==
    []C20_OneRowPerPair /\ [][C20_SaveFrame]_vars

\* C21: MinMaxLastYear, RSI and Stochastic each return one of BUY, SELL, HOLD
\* for a symbol they answer for, and never two for one symbol: BUY iff the
\* value is at most 20, SELL iff it is at least 80, HOLD otherwise, the value
\* being the percentile (price - min)/(max - min)*100 or the oscillator value;
\* MinMaxLastYear returns nothing for a symbol without a current price or with
\* max = min, and one recommendation for every other row with a price.
RecsOf(symbol) ==
    {i \in 1..Len(signal.recs) : signal.recs[i].symbol = symbol}

ByThresholds(recommendation, value_times, unit) ==
    /\ recommendation \in {"BUY", "SELL", "HOLD"}
    /\ recommendation = "BUY" <=> value_times <= 20 * unit
    /\ recommendation = "SELL" <=> value_times >= 80 * unit

C21_MinMax ==
    signal.strategy = "MinMaxLastYear" =>
        /\ \A i \in 1..Len(signal.recs) :
              \E j \in 1..Len(signal.rows) : signal.rows[j].symbol = signal.recs[i].symbol
        /\ \A j \in 1..Len(signal.rows) :
              LET row == signal.rows[j]
              IN IF ~row.current_price.some \/ row.max_price = row.min_price
                 THEN RecsOf(row.symbol) = {}
                 ELSE IF row.current_price.value > 0
                 THEN /\ Cardinality(RecsOf(row.symbol)) = 1
                      /\ \A i \in RecsOf(row.symbol) :
                            ByThresholds(signal.recs[i].recommendation,
                                         100 * (row.current_price.value - row.min_price),
                                         row.max_price - row.min_price)
                 ELSE RecsOf(row.symbol) = {}

OscillatorOf(symbol) ==
    IF ~signal.latest[symbol].some THEN NullColumn
    ELSE IF signal.strategy = "RSI" THEN signal.latest[symbol].value.rsi25
    ELSE signal.latest[symbol].value.stochastic14_7_7

C21_Oscillators ==
    signal.strategy \in {"RSI", "Stochastic"} =>
        \A symbol \in Symbols :
            IF OscillatorOf(symbol).kind = "number"
            THEN /\ Cardinality(RecsOf(symbol)) = 1
                 /\ \A i \in RecsOf(symbol) :
                       ByThresholds(signal.recs[i].recommendation,
                                    OscillatorOf(symbol).value, 1)
            ELSE RecsOf(symbol) = {}

C21_ThresholdSignals == C21_MinMax /\ C21_Oscillators

C21_Witness ==
    /\ signal.strategy = "MinMaxLastYear"
    /\ Len(signal.rows) = 2
    /\ Len(signal.recs) = 1
    /\ signal.rows[2].max_price = signal.rows[2].min_price
    /\ signal.rows[1].min_price = 10
    /\ signal.rows[1].max_price = 20
    /\ signal.rows[1].current_price = Some(12)
    /\ signal.recs[1].recommendation = "BUY"

\* C22: the EMA strategy's recommendation for a symbol is a list of exactly
\* three signals, for EMA20, EMA50 and EMA200 in that order: N/A iff the
\* average is null, BUY iff the close is above it, SELL iff the close is at
\* or below it.
EMAColumns(indicator) == <<indicator.ema20, indicator.ema50, indicator.ema200>>

C22_EMASignals ==
    signal.strategy = "EMA" =>
        \A i \in 1..Len(signal.recs) :
            LET rec == signal.recs[i]
                columns == EMAColumns(signal.latest[rec.symbol].value)
                close == signal.closes[rec.symbol].value.value
            IN /\ Len(rec.recommendation) = 3
               /\ Cardinality(RecsOf(rec.symbol)) = 1
               /\ \A k \in 1..3 :
                     /\ rec.recommendation[k] \in {"BUY", "SELL", "N/A"}
                     /\ rec.recommendation[k] = "N/A" <=> columns[k] = NullColumn
                     /\ rec.recommendation[k] = "BUY"
                            <=> (columns[k] # NullColumn /\ close > columns[k].value)
                     /\ rec.recommendation[k] = "SELL"
                            <=> (columns[k] # NullColumn /\ close <= columns[k].value)

C22_Witness ==
    /\ signal.strategy = "EMA"
    /\ \E i \in 1..Len(signal.recs) :
          /\ signal.recs[i].recommendation = <<"BUY", "SELL", "N/A">>
          /\ signal.latest[signal.recs[i].symbol].value.ema50
                 = NumberColumn(signal.closes[signal.recs[i].symbol].value.value)

\* C23: a SELL rejected as short selling leaves no lot for that sell in the
\* store: the trade lots after the failed call are the lots before it.
C23_RejectedSellLeavesNoLot ==
    [][(IsSellStep /\ last'.outcome = "short_selling") => trades' = trades]_vars

\* C24: of two eligible BUY lots of the user and symbol with the same date, a
\* SELL consumes the one inserted first (the lower id) before the other.
C24_TiesByInsertionOrder ==
    [][IsSellStep =>
          \A i \in LotsOf(last'.user_id, last'.request.symbol) :
              \A j \in LotsOf(last'.user_id, last'.request.symbol) :
                  (/\ i < j
                   /\ trades[i].date = trades[j].date
                   /\ trades[i].quantite_restante > 0
                   /\ trades'[j].quantite_restante < trades[j].quantite_restante)
                      => trades'[i].quantite_restante = 0]_vars

\* C25: a trade, BUY or SELL, whose symbol is not an instrument of the stock
\* table is rejected with the not-found error, and the call inserts no lot and
\* changes nothing in the store.
C25_UnknownSymbolRejected ==
    [][(IsTradeStep /\ ~StockFound(last'.request.symbol))
          => /\ last'.outcome = "stock_not_found"
             /\ trades' = trades
             /\ closed' = closed
             /\ wallet' = wallet]_vars

\* C26: in every reachable state the balance request returns the balances of
\* calculate_balances; its invested amount of a currency is the sum of
\* quantite_restante * prix_unitaire over the user's BUY lots.
C26_BalanceRequestAgrees ==
    \A u \in Users :
        get_balance(wallet, trades, u) = calculate_balances(wallet, trades, u)

\* C27: in every reachable state, after accepted and rejected trades alike, the
\* open-positions request lists a symbol of the user exactly when its
\* available quantity (the sum of quantite_restante over its BUY lots) is
\* positive, and the quantity listed is that available quantity.
C27_OpenPositionsAgree ==
    \A u \in Users :
        \A i \in 1..Len(trades) :
            LET symbol == trades[i].symbol
                available == get_available_quantity(trades, u, symbol)
                listed == {p \in get_open_positions(trades, u) : p.symbol = symbol}
            IN /\ (listed # {}) <=> (available > 0)
               /\ \A p \in listed : p.quantite_totale = available

\* C28: a successful SELL leaves total of the instrument's currency unchanged,
\* lowers its invested amount and raises its treasury by exactly the sum, over
\* the lots the sell matched, of the quantity consumed times the lot's buy unit
\* price, whatever the sell price; the settlement adds no ledger entry.
ClosedBy(sale_id, cl) == {k \in 1..Len(cl) : cl[k].trade_vente_id = sale_id}

C28_SellStep ==
    (IsSellStep /\ last'.outcome = "ok") =>
        LET u        == last'.user_id
            k        == StockCurrency(last'.request.symbol)
            before   == BalanceIn(calculate_balances(wallet, trades, u), k)
            after    == BalanceIn(calculate_balances(wallet', trades', u), k)
            consumed == SumOver(ClosedBy(last'.trade_id, closed'),
                                [r \in 1..Len(closed') |->
                                    closed'[r].quantity * closed'[r].prix_achat])
        IN /\ wallet' = wallet
           /\ after.total = before.total
           /\ after.invested = before.invested - consumed
           /\ after.treasury = before.treasury + consumed

C28_SellReleasesBuyCost == [][C28_SellStep]_vars

\* A successful sell has matched two lots bought at different prices, at a
\* sell price that is neither of them.
C28_Witness ==
    /\ last.op = "create_trade" /\ last.request.trade_type = "vente"
    /\ last.outcome = "ok"
    /\ \E k1, k2 \in SettledBy(last.trade_id) :
          /\ closed[k1].prix_achat # closed[k2].prix_achat
          /\ closed[k1].prix_vente # closed[k1].prix_achat
          /\ closed[k2].prix_vente # closed[k2].prix_achat

\* C29: with calls made one after the other, as long as the ledger holds only
\* deposits ("ajout") and gains, the treasury of every user in every currency
\* is never negative, whatever deposits, BUYs and SELLs have been made.
OnlyDepositsAndGains ==
    \A k \in 1..Len(wallet) : wallet[k].action \in {"ajout", "gain"}

C29_TreasuryNeverNegative ==
    OnlyDepositsAndGains =>
        \A u \in Users, c \in Currencies :
            BalanceIn(calculate_balances(wallet, trades, u), c).treasury >= 0

\* A gain of 1000 has been spent to the last cent by two purchases.
C29_Witness ==
    /\ OnlyDepositsAndGains
    /\ \E k \in 1..Len(wallet) : wallet[k].action = "gain"
    /\ Cardinality(BuyLotIds) >= 2
    /\ \E u \in Users :
          LET b == BalanceIn(calculate_balances(wallet, trades, u), "CAD")
          IN b.treasury = 0 /\ b.invested > 0

\* C30: two BUYs of one user that overlap are never both admitted when their
\* combined cost exceeds the treasury available before either of them: however
\* their funds checks and lot insertions interleave, the treasury of the user
\* never ends below zero.
C30_ConcurrentBuysWithinFunds ==
    \A u \in Users, c \in Currencies :
        BalanceIn(calculate_balances(wallet, trades, u), c).treasury >= 0

\* C31: every closed trade pairs a SELL with a BUY lot dated on or before the
\* SELL, so its holding time in days (date of the sale minus date of the
\* purchase) is never negative.
C31_HoldingDaysNotNegative ==
    \A k \in 1..Len(closed) :
        /\ closed[k].date_achat <= closed[k].date_vente
        /\ closed[k].temps_jours >= 0

\* C32: with calls made one after the other, when the BUY lots of a user and
\* symbol were submitted with strictly increasing dates, the consumed lots are
\* a prefix in date order in every reachable state: a lot with
\* quantite_restante < quantite has only sold-out lots dated before it.
IncreasingDates(lots) ==
    \A i \in lots : \A j \in lots : i < j => trades[i].date < trades[j].date

C33_PathIndependent ==
    calc.op = "incremental" =>
        calc.rows = IndicatorRows(RowsAfter(calc.data, calc.last_date), calc.data)

\* C34: after a strategy run has saved the result of (strategy_id, symbol), the
\* date of that row is the date of the run, also when the row existed before
\* and the save overwrote its recommendation.
C34_SaveStep ==
    (/\ strategy_run.pc = "saving" /\ strategy_run.pending # <<>>
     /\ strategy_run'.pc = "saving"
     /\ strategy_run'.pending = Tail(strategy_run.pending))
        => LET target == Head(strategy_run.pending)
           IN \A r \in results' :
                  (r.strategy_id = target.strategy_id /\ r.symbol = target.symbol)
                      => r.date = strategy_run.today

C34_DateOfLastRun == [][C34_SaveStep]_vars

\* C35: for the row at 0-based position i of a symbol's series, RSI(25) is
\* null iff i <= 25; otherwise it is 100 - 100/(1 + RS), RS being the average
\* gain over the average loss of the last 25 daily changes, and it is exactly
\* 100 whenever that average loss is 0.
ChangeAt(closes, j) == closes[j] - closes[j - 1]

\* The gains (sign = 1) or losses (sign = -1) among the 25 changes that end
\* at row n, summed.
TrailingMoves(closes, n, sign) ==
    SumOver({j \in (n - 24)..n : sign * ChangeAt(closes, j) > 0},
            [j \in 1..Len(closes) |-> IF j = 1 THEN 0 ELSE sign * ChangeAt(closes, j)])

C35_RSIDefinition ==
    calc.op = "rsi" =>
        LET closes == ClosesOf(calc.data)
        IN \A n \in 1..Len(closes) :
               /\ ~calc.rsi[n].some <=> (n - 1 <= 25)
               /\ calc.rsi[n].some =>
                     LET avg_gain == Ratio(TrailingMoves(closes, n, 1), 25)
                         avg_loss == Ratio(TrailingMoves(closes, n, 0 - 1), 25)
                     IN IF avg_loss.num = 0 THEN calc.rsi[n].value = Whole(100)
                        ELSE calc.rsi[n].value =
                                 RatSub(Whole(100),
                                        RatDiv(Whole(100),
                                               RatAdd(Whole(1),
                                                      RatDiv(avg_gain, avg_loss))))

\* A series of 27 rows or more: no value at the 26th row, and at the 27th a
\* value strictly between 0 and 100, from gains and losses in its window.
C35_Witness ==
    /\ calc.op = "rsi" /\ Len(calc.data) >= 27
    /\ ~calc.rsi[26].some /\ calc.rsi[27].some
    /\ calc.rsi[27].value.num > 0
    /\ calc.rsi[27].value.num < 100 * calc.rsi[27].value.den

\* C36: for each period p of 20, 50 and 200, the EMA of a series is null for
\* its first p - 1 rows, is the simple average of the first p closes at the
\* p-th row, and at each later row is close * k + previous EMA * (1 - k) with
\* k = 2 / (p + 1); a series of fewer than p rows has no value at all.
EMAByDefinition(ema, closes, p) ==
    LET k == Ratio(2, p + 1)
    IN \A n \in 1..Len(closes) :
           IF Len(closes) < p \/ n < p THEN ~ema[n].some
           ELSE /\ ema[n].some
                /\ IF n = p
                   THEN ema[n].value
                            = Ratio(SumSeq(SubSeq(closes, 1, p)), p)
                   ELSE ema[n].value
                            = RatAdd(RatMul(Whole(closes[n]), k),
                                     RatMul(ema[n - 1].value, RatSub(Whole(1), k)))

C36_EMADefinition ==
    calc.op = "ema" =>
        /\ EMAByDefinition(calc.ema[1], ClosesOf(calc.data), 20)
        /\ EMAByDefinition(calc.ema[2], ClosesOf(calc.data), 50)
        /\ EMAByDefinition(calc.ema[3], ClosesOf(calc.data), 200)

\* A series of 202 rows whose EMA200 starts at the 200th row and has moved
\* with the closes by the 202nd.
C36_Witness ==
    /\ calc.op = "ema" /\ Len(calc.data) = 202
    /\ ~calc.ema[3][199].some /\ calc.ema[3][200].some
    /\ calc.ema[3][202].value # calc.ema[3][200].value
    /\ calc.ema[1][202].value # calc.ema[2][202].value

\* C37: the Stochastic value of a row is the simple average of the last 7 fast
\* %K values, each over its own window of 14 rows as 100 * (close - lowest
\* low) / (highest high - lowest low), and 0 when the highest high equals the
\* lowest low; it is null unless the row has at least 20 rows before it.
WindowLow(data, j) ==
    CHOOSE l \in {data[i].low : i \in (j - 13)..j} :
        \A i \in (j - 13)..j : l <= data[i].low

WindowHigh(data, j) ==
    CHOOSE h \in {data[i].high : i \in (j - 13)..j} :
        \A i \in (j - 13)..j : h >= data[i].high

FastK(data, j) ==
    IF WindowHigh(data, j) = WindowLow(data, j) THEN Whole(0)
    ELSE Ratio(100 * (data[j].close - WindowLow(data, j)),
               WindowHigh(data, j) - WindowLow(data, j))

C37_StochasticDefinition ==
    calc.op = "stochastic" =>
        \A n \in 1..Len(calc.data) :
            /\ calc.stoch[n].some <=> (n - 1 >= 20)
            /\ calc.stoch[n].some =>
                  calc.stoch[n].value
                      = RatDiv(RatSum([j \in 1..7 |-> FastK(calc.data, n - 7 + j)]),
                               Whole(7))

\* The 21st row is the first with a value; of its 7 fast %K values one is 0
\* for a window without range and another is not 0.
C37_Witness ==
    /\ calc.op = "stochastic" /\ Len(calc.data) >= 21
    /\ ~calc.stoch[20].some /\ calc.stoch[21].some
    /\ calc.stoch[21].value.num > 0
    /\ \E j \in 15..21 : WindowHigh(calc.data, j) = WindowLow(calc.data, j)

\* C38: for each row and each window (week 7, month 30, year 365) the pivot
\* set comes from the trailing window that ends at the row: its pivot is
\* (H + L + C + O) / 4 with H the highest high, L the lowest low, C the last
\* close and O the first open of the window; a window of fewer than 2, 5 or
\* 30 rows is left out of the stored JSON, and no JSON is stored for the row
\* when all three are left out.
Trailing(n, period_days) ==
    {i \in 1..n : i > n - period_days}

TrailingPivot(data, n, period_days) ==
    LET rows == Trailing(n, period_days)
        first == CHOOSE i \in rows : \A k \in rows : i <= k
        H == CHOOSE h \in {data[i].high : i \in rows} : \A i \in rows : h >= data[i].high
        L == CHOOSE l \in {data[i].low : i \in rows} : \A i \in rows : l <= data[i].low
    IN Ratio(H + L + data[n].close + data[first].open, 4)

WindowAgrees(stored, data, n, period_days, min_data_points) ==
    /\ stored.some <=> (Cardinality(Trailing(n, period_days)) >= min_data_points)
    /\ stored.some =>
          /\ Ratio(stored.value.pivot, 100) = TrailingPivot(data, n, period_days)
          /\ stored.value = calculate_camarilla_pivots(
                 CHOOSE h \in {data[i].high : i \in Trailing(n, period_days)} :
                     \A i \in Trailing(n, period_days) : h >= data[i].high,
                 CHOOSE l \in {data[i].low : i \in Trailing(n, period_days)} :
                     \A i \in Trailing(n, period_days) : l <= data[i].low,
                 data[n].close,
                 data[CHOOSE i \in Trailing(n, period_days) :
                          \A k \in Trailing(n, period_days) : i <= k].open)

C38_PivotWindows ==
    calc.op = "point_pivot" =>
        \A n \in 1..Len(calc.data) :
            LET json == calc.pivot[n]
            IN /\ WindowAgrees(json.value.week, calc.data, n, 7, 2)
               /\ WindowAgrees(json.value.month, calc.data, n, 30, 5)
               /\ WindowAgrees(json.value.year, calc.data, n, 365, 30)
               /\ json.some <=> \/ json.value.week.some
                                \/ json.value.month.some
                                \/ json.value.year.some

\* A series of more than 365 rows whose prices move: the first row has no
\* JSON, the second has the week alone, and the last has a year window that
\* no longer reaches the first row.
C38_Witness ==
    /\ calc.op = "point_pivot" /\ Len(calc.data) > 365
    /\ calc.data[1].close # calc.data[Len(calc.data)].close
    /\ ~calc.pivot[1].some
    /\ calc.pivot[2].some /\ calc.pivot[2].value.week.some
    /\ ~calc.pivot[2].value.month.some
    /\ calc.pivot[Len(calc.data)].value.year.some
    /\ 1 \notin Trailing(Len(calc.data), 365)

\* C39: the Point Pivot score of a symbol is the sum, over the windows present
\* (year weight 3, month 2, week 1) and the levels (S3/R3 weight 3, S2/R2
\* weight 2, S1/R1 weight 1), of window weight * level weight * direction (+1
\* for a support, -1 for a resistance) for each level with |close - level| <=
\* 1% of the level; the recommendation is BUY iff the score is above 0, SELL
\* iff it is below 0 and HOLD iff it is 0.
PivotWindows == {[name |-> "year", weight |-> 3], [name |-> "month", weight |-> 2],
                 [name |-> "week", weight |-> 1]}

PivotLevels ==
    {[name |-> "s3", weight |-> 3, direction |-> 1],
     [name |-> "s2", weight |-> 2, direction |-> 1],
     [name |-> "s1", weight |-> 1, direction |-> 1],
     [name |-> "r1", weight |-> 1, direction |-> -1],
     [name |-> "r2", weight |-> 2, direction |-> -1],
     [name |-> "r3", weight |-> 3, direction |-> -1]}

\* |close - level| <= 1% of the level, the level in hundredths
WithinOnePercent(close, level) ==
    LET distance == IF 100 * close >= level THEN 100 * close - level
                    ELSE level - 100 * close
    IN 100 * distance <= level

NearLevels(close, json) ==
    {t \in PivotWindows \X PivotLevels :
        /\ json[t[1].name].some
        /\ WithinOnePercent(close, json[t[1].name].value[t[2].name])}

RECURSIVE SumOfTerms(_)
SumOfTerms(terms) ==
    IF terms = {} THEN 0
    ELSE LET t == CHOOSE x \in terms : TRUE
         IN t[1].weight * t[2].weight * t[2].direction + SumOfTerms(terms \ {t})

ScoreOf(symbol) ==
    SumOfTerms(NearLevels(signal.closes[symbol].value.value,
                          signal.latest[symbol].value.point_pivot.value))

C39_PointPivotScore ==
    signal.strategy = "PointPivot" =>
        \A i \in 1..Len(signal.recs) :
            LET rec == signal.recs[i]
            IN /\ rec.total_score = ScoreOf(rec.symbol)
               /\ rec.recommendation = "BUY" <=> ScoreOf(rec.symbol) > 0
               /\ rec.recommendation = "SELL" <=> ScoreOf(rec.symbol) < 0
               /\ rec.recommendation = "HOLD" <=> ScoreOf(rec.symbol) = 0

\* A symbol with all three windows, a support near the close in one of them
\* and a resistance near it in another, one of the near levels at exactly 1%
\* of itself from the close, and a score that is not 0.
C39_Witness ==
    /\ signal.strategy = "PointPivot"
    /\ \E i \in 1..Len(signal.recs) :
          LET rec == signal.recs[i]
              close == signal.closes[rec.symbol].value.value
              json == signal.latest[rec.symbol].value.point_pivot.value
              near == NearLevels(close, json)
          IN /\ json.year.some /\ json.month.some /\ json.week.some
             /\ rec.total_score # 0
             /\ \E s \in near, r \in near :
                   /\ s[2].direction = 1 /\ r[2].direction = -1
                   /\ s[1].name # r[1].name
             /\ \E t \in near :
                   LET level == json[t[1].name].value[t[2].name]
                   IN level # 100 * close /\ 100 * Abs(100 * close - level) = level

=============================================================================
